---- MODULE Spec2Model ----
(***************************************************************************)
(* Spendful: the local spend ledger and the recurring entry engine of      *)
(* lib/database.ts (src/unnamed/part_004), over AsyncStorage.               *)
(*                                                                         *)
(* Every exported function of the store is an async function: it runs up   *)
(* to its next `await` of an AsyncStorage call, and other calls may run in *)
(* between.  A call in flight is a task; one action is one step of a task  *)
(* from one storage call to the next.  A storage call either succeeds or   *)
(* throws (the promise rejects); which of the two is the `fail` parameter  *)
(* of the step.                                                            *)
(*                                                                         *)
(* Encodings.  A date string YYYY-MM-DD is the number of days since        *)
(* 2024-01-01; the order of the fixed-width strings is the order of the    *)
(* numbers, and the Date arithmetic is done on (year, month, day).  A      *)
(* nullable string is a TLA+ string, null being NullStr; a note is a       *)
(* sequence of pieces so that the "[Recurring] " prefix can be put in      *)
(* front of it, null being NullNote.  A stored JSON value is a record      *)
(* [st, v]: st is "absent" (getItem gives null), "ok" (v is the parsed     *)
(* value) or "corrupt" (JSON.parse throws).                                *)
(***************************************************************************)
EXTENDS Integers, Sequences, FiniteSets, TLC

\* ------------------------------------------------------------------ bounds
\* calls in flight at once
MaxTasks == 2
\* last calendar day of a run (days since 2024-01-01)
MaxDay == 62
\* entry ids handed out by generateUUID to manual adds
MaxIds == 1
\* last instant of the clock
MaxNow == 1

\* ---------------------------------------------------------------- calendar
IsLeapYear(y) == (y % 4 = 0 /\ y % 100 # 0) \/ y % 400 = 0

DaysInMonth(y, m) ==
  IF m = 2 THEN (IF IsLeapYear(y) THEN 29 ELSE 28)
  ELSE IF m \in {4, 6, 9, 11} THEN 30 ELSE 31

\* new Date(s + "T00:00:00"): the local (year, month, day) of day number n
RECURSIVE ParseDateFrom(_, _, _)
ParseDateFrom(y, m, n) ==
  IF n < DaysInMonth(y, m)
  THEN [year |-> y, month |-> m, day |-> n + 1]
  ELSE IF m = 12 THEN ParseDateFrom(y + 1, 1, n - DaysInMonth(y, m))
       ELSE ParseDateFrom(y, m + 1, n - DaysInMonth(y, m))

ParseDate(n) == ParseDateFrom(2024, 1, n)

\* days from 2024-01-01 to the first day of month m of year y
RECURSIVE DaysBeforeMonth(_, _)
DaysBeforeMonth(y, m) ==
  IF y = 2024 /\ m = 1 THEN 0
  ELSE IF m = 1 THEN DaysBeforeMonth(y - 1, 12) + DaysInMonth(y - 1, 12)
       ELSE DaysBeforeMonth(y, m - 1) + DaysInMonth(y, m - 1)

\* The date a Date holds after its fields were set to (y, m, d), m possibly
\* 13 and d possibly past the end of the month (Date normalises both), as
\* formatted by getFullYear/getMonth/getDate with padStart.
FormatDate(y, m, d) ==
  IF m > 12 THEN DaysBeforeMonth(y + 1, m - 12) + (d - 1)
  ELSE DaysBeforeMonth(y, m) + (d - 1)

\* ------------------------------------------------------------------ values
NullStr == "<null>"
NullNote == <<"<null>">>
NullDate == 0 - 1
NullInstant == 0 - 1
RecurringTag == "[Recurring]"

\* `x || "Uncategorized"`: null and the empty string are falsy
OrUncategorized(c) == IF c = NullStr \/ c = "" THEN "Uncategorized" ELSE c

\* A number is an integer; Infinity stands for the double +Infinity, which
\* is above every number, and NullAmount for a null where a number is due.
Infinity == 1000000
NullAmount == 0 - 1

\* JSON.stringify of a number: a number that is not finite is written as null
JsonNumber(n) == IF n = Infinity THEN NullAmount ELSE n

\* JSON.stringify of an array of entries or of templates, as JSON.parse
\* gives it back
RECURSIVE JsonArray(_)
JsonArray(arr) ==
  IF arr = <<>> THEN <<>>
  ELSE <<[Head(arr) EXCEPT !.amount = JsonNumber(@)]>> \o JsonArray(Tail(arr))

Absent == [st |-> "absent", v |-> <<>>]
Stored(v) == [st |-> "ok", v |-> v]
Corrupt == [st |-> "corrupt", v |-> <<>>]

\* JSON.parse(data) after `if (!data) return []`: the parsed array, or a throw
ParseThrows(item) == item.st = "corrupt"

SeqToSet(s) == {s[i] : i \in 1..Len(s)}

RECURSIVE SeqSum(_)
SeqSum(s) == IF s = <<>> THEN 0 ELSE Head(s) + SeqSum(Tail(s))

\* findIndex: the first index whose element satisfies Test, 0 for -1
FindIndex(s, Test(_)) ==
  IF \E i \in 1..Len(s) : Test(s[i])
  THEN CHOOSE i \in 1..Len(s) : Test(s[i]) /\ \A j \in 1..(i - 1) : ~Test(s[j])
  ELSE 0

\* .sort((a, b) => b.timestamp - a.timestamp): a stable sort, latest first
RECURSIVE InsertByTimestamp(_, _)
InsertByTimestamp(sorted, e) ==
  IF sorted = <<>> THEN <<e>>
  ELSE IF Head(sorted).timestamp >= e.timestamp
       THEN <<Head(sorted)>> \o InsertByTimestamp(Tail(sorted), e)
       ELSE <<e>> \o sorted

RECURSIVE SortByTimestampDesc(_)
SortByTimestampDesc(s) ==
  IF s = <<>> THEN <<>>
  ELSE InsertByTimestamp(SortByTimestampDesc(SubSeq(s, 1, Len(s) - 1)), s[Len(s)])

\* ------------------------------------------------------------------- state
VARIABLES
  spendEntries,        \* AsyncStorage item spendful_spend_entries
  migratedV2,          \* item spendful_migrated_v2: "absent" or "true"
  dailyLogs,           \* item spendful_daily_logs (the legacy log)
  recurringEntries,    \* item spendful_recurring_entries
  lastRecurringCheck,  \* item spendful_last_recurring_check, NullDate if absent
  appSettings,         \* item spendful_app_settings
  subscription,        \* item spendful_subscription
  today,               \* the device's calendar day
  now,                 \* the device's clock, Date.now()
  uuid,                \* the identifiers generateUUID has handed out
  tasks,               \* the calls in flight
  generatedLog,        \* history: the entries the engine added, per template
  lateTemplates,       \* history: templates saved after their day's run
  editedTemplates      \* history: templates changed by updateRecurringEntry

storage == <<spendEntries, migratedV2, dailyLogs, recurringEntries,
             lastRecurringCheck, appSettings, subscription>>
clock == <<today, now>>
vars == <<spendEntries, migratedV2, dailyLogs, recurringEntries,
          lastRecurringCheck, appSettings, subscription, today, now, uuid,
          tasks, generatedLog, lateTemplates, editedTemplates>>
history == <<generatedLog, lateTemplates, editedTemplates>>

TaskIds == 1..MaxTasks

NoUpdates == [keys |-> {}, vals |-> <<>>]

IdleTask ==
  [op |-> "idle", pc |-> "idle", status |-> "idle", result |-> <<>>,
   \* arguments
   date |-> NullDate, date2 |-> NullDate, amount |-> 0, category |-> NullStr,
   note |-> NullNote, currency |-> NullStr, id |-> 0, frequency |-> "weekly",
   updates |-> NoUpdates,
   \* locals
   entries |-> <<>>, newEntries |-> <<>>, newEntry |-> <<>>,
   recurring |-> <<>>, recEntries |-> <<>>, idx |-> 0, nextDate |-> NullDate,
   generated |-> 0, today |-> NullDate, updated |-> <<>>,
   \* history: the stored collections when the call started, and whether
   \* the migration inside this call wrote the entry collection
   preEntries |-> Absent, preRecurring |-> Absent, migWrote |-> FALSE,
   \* history: the day's marker and the size of generatedLog at the start
   preCheck |-> NullDate, preLog |-> 0,
   \* history: the migration marker at the start, whether this call read
   \* the legacy log, and the steps of this call whose storage call threw
   preMarker |-> "absent", readLegacy |-> FALSE, faults |-> {}]

Idle(t) == tasks[t].status = "idle"
Running(t) == tasks[t].status = "running"
Done(t) == tasks[t].status \in {"resolved", "rejected"}
AllIdle == \A t \in TaskIds : Idle(t)

SetTask(t, tk) == tasks' = [tasks EXCEPT ![t] = tk]

\* the task after a step: tk, with the step noted when its storage call threw
After(t, fail, tk) ==
  SetTask(t, IF fail THEN [tk EXCEPT !.faults = tasks[t].faults \cup {tasks[t].pc}]
             ELSE tk)

Resolve(tk, res) == [tk EXCEPT !.pc = "done", !.status = "resolved", !.result = res]
Reject(tk) == [tk EXCEPT !.pc = "done", !.status = "rejected", !.result = <<"error">>]

\* A call starts: it is running, and the history fields hold the stored
\* collections as they are now.
Begin(tk) ==
  [tk EXCEPT !.status = "running", !.preEntries = spendEntries,
             !.preRecurring = recurringEntries,
             !.preCheck = lastRecurringCheck,
             !.preLog = Cardinality(generatedLog),
             !.preMarker = migratedV2]

\* The slot a new call takes: the lowest idle one.
FreeSlot(t) == Idle(t) /\ \A u \in TaskIds : u < t => ~Idle(u)

\* ------------------------------------------------------------- migrateFromV1
\* One legacy row: the SpendEntry it becomes, if it becomes one
\* (amount is <<>> for null, <<n>> for the number n).
\* (variant: the did_spend test left out)
LegacySpendsAnyRow(log) ==
  log.amount # <<>> /\ log.amount[1] # 0 /\ log.amount[1] > 0

LegacySpends(log) ==
  log.did_spend /\ log.amount # <<>> /\ log.amount[1] # 0 /\ log.amount[1] > 0

LegacyToEntry(log) ==
  [entry_id |-> log.id, date |-> log.date, amount |-> log.amount[1],
   category |-> OrUncategorized(log.category), currency |-> NullStr,
   note |-> log.note, timestamp |-> log.created_at,
   created_at |-> log.created_at, updated_at |-> log.updated_at]

\* the loop over oldLogs building newEntries
RECURSIVE ConvertLegacy(_)
ConvertLegacy(oldLogs) ==
  IF oldLogs = <<>> THEN <<>>
  ELSE IF LegacySpends(Head(oldLogs))
       THEN <<LegacyToEntry(Head(oldLogs))>> \o ConvertLegacy(Tail(oldLogs))
       ELSE ConvertLegacy(Tail(oldLogs))

\* (variant: the marker is read and not looked at)
MigGetMarkerAlways(t, fail) ==
  /\ Running(t) /\ tasks[t].pc = "mig_getMarker"
  /\ After(t, fail, IF fail THEN Reject(tasks[t])
                    ELSE [tasks[t] EXCEPT !.pc = "mig_getOld"])
  /\ UNCHANGED <<storage, clock, uuid, history>>

\* await AsyncStorage.getItem(MIGRATED_V2), outside the try: a failure
\* rejects migrateFromV1, and with it getAllEntries and its caller
MigGetMarker(t, fail) ==
  /\ Running(t) /\ tasks[t].pc = "mig_getMarker"
  /\ After(t, fail, IF fail THEN Reject(tasks[t])
                ELSE IF migratedV2 = "true"
                     THEN [tasks[t] EXCEPT !.pc = "getEntries"]
                     ELSE [tasks[t] EXCEPT !.pc = "mig_getOld"])
  /\ UNCHANGED <<storage, clock, uuid, history>>

\* await AsyncStorage.getItem("spendful_daily_logs"), JSON.parse and the
\* conversion loop, inside the try
MigGetOld(t, fail) ==
  /\ Running(t) /\ tasks[t].pc = "mig_getOld"
  /\ After(t, fail,
       IF fail \/ ParseThrows(dailyLogs)
       THEN [tasks[t] EXCEPT !.pc = "mig_catch", !.readLegacy = TRUE]
       ELSE IF dailyLogs.st = "absent"
       THEN [tasks[t] EXCEPT !.pc = "mig_setMarker", !.readLegacy = TRUE]
       ELSE IF Len(ConvertLegacy(dailyLogs.v)) > 0
       THEN [tasks[t] EXCEPT !.pc = "mig_setEntries", !.readLegacy = TRUE,
                             !.newEntries = ConvertLegacy(dailyLogs.v)]
       ELSE [tasks[t] EXCEPT !.pc = "mig_setMarker", !.readLegacy = TRUE])
  /\ UNCHANGED <<storage, clock, uuid, history>>

\* await AsyncStorage.setItem(SPEND_ENTRIES, JSON.stringify(newEntries))
MigSetEntries(t, fail) ==
  /\ Running(t) /\ tasks[t].pc = "mig_setEntries"
  /\ IF fail
     THEN /\ After(t, fail, [tasks[t] EXCEPT !.pc = "mig_catch"])
          /\ UNCHANGED spendEntries
     ELSE /\ spendEntries' = Stored(JsonArray(tasks[t].newEntries))
          /\ After(t, fail, [tasks[t] EXCEPT !.pc = "mig_setMarker", !.migWrote = TRUE])
  /\ UNCHANGED <<migratedV2, dailyLogs, recurringEntries, lastRecurringCheck,
                 appSettings, subscription, clock, uuid, history>>

\* await AsyncStorage.setItem(MIGRATED_V2, "true"), the last line of the try
MigSetMarker(t, fail) ==
  /\ Running(t) /\ tasks[t].pc = "mig_setMarker"
  /\ IF fail
     THEN /\ After(t, fail, [tasks[t] EXCEPT !.pc = "mig_catch"])
          /\ UNCHANGED migratedV2
     ELSE /\ migratedV2' = "true"
          /\ After(t, fail, [tasks[t] EXCEPT !.pc = "getEntries"])
  /\ UNCHANGED <<spendEntries, dailyLogs, recurringEntries, lastRecurringCheck,
                 appSettings, subscription, clock, uuid, history>>

\* (variant: a catch that swallows the failure and sets nothing)
MigCatchNoMarker(t, fail) ==
  /\ Running(t) /\ tasks[t].pc = "mig_catch"
  /\ After(t, fail, [tasks[t] EXCEPT !.pc = "getEntries"])
  /\ UNCHANGED <<storage, clock, uuid, history>>

\* catch { await AsyncStorage.setItem(MIGRATED_V2, "true") }: a failure here
\* is not caught by anything
MigCatch(t, fail) ==
  /\ Running(t) /\ tasks[t].pc = "mig_catch"
  /\ IF fail
     THEN /\ After(t, fail, Reject(tasks[t]))
          /\ UNCHANGED migratedV2
     ELSE /\ migratedV2' = "true"
          /\ After(t, fail, [tasks[t] EXCEPT !.pc = "getEntries"])
  /\ UNCHANGED <<spendEntries, dailyLogs, recurringEntries, lastRecurringCheck,
                 appSettings, subscription, clock, uuid, history>>

\* ------------------------------------------------------------ the entry store
\* recurring.note ? `[Recurring] ${recurring.note}` : "[Recurring]"
RecurringNote(note) ==
  IF note = NullNote \/ note = <<>> THEN <<RecurringTag>>
  ELSE <<RecurringTag, " ">> \o note

\* The arguments of the addSpendEntry a call makes: its own, or for the
\* engine those of the occurrence nextDate of the template it is at.
AddArgs(tk) ==
  IF tk.op = "gen"
  THEN LET r == tk.recurring[tk.idx] IN
       [date |-> tk.nextDate, amount |-> r.amount, category |-> r.category,
        note |-> RecurringNote(r.note), currency |-> r.currency]
  ELSE [date |-> tk.date, amount |-> tk.amount, category |-> tk.category,
        note |-> tk.note, currency |-> tk.currency]

\* addSpendEntry's newEntry
NewSpendEntry(a, id, at) ==
  [entry_id |-> id, date |-> a.date, amount |-> a.amount,
   category |-> OrUncategorized(a.category), currency |-> a.currency,
   note |-> a.note, timestamp |-> at, created_at |-> at, updated_at |-> at]

\* (variant: the entry stamped anew as well)
UpdatedSpendEntryRestamped(e, tk, at) ==
  [e EXCEPT !.amount = tk.amount, !.category = OrUncategorized(tk.category),
            !.currency = tk.currency, !.note = tk.note, !.updated_at = at,
            !.timestamp = at]

\* updateSpendEntry's { ...entries[index], amount, category, currency, note, updated_at }
UpdatedSpendEntry(e, tk, at) ==
  [e EXCEPT !.amount = tk.amount, !.category = OrUncategorized(tk.category),
            !.currency = tk.currency, !.note = tk.note, !.updated_at = at]

\* (variant: the entries stored after the deleted one dropped with it)
WithoutEntryAndLater(ents, entryId) ==
  LET index == FindIndex(ents, LAMBDA e : e.entry_id = entryId) IN
  IF index = 0 THEN ents ELSE SubSeq(ents, 1, index - 1)

\* deleteSpendEntry's entries.filter((e) => e.entry_id !== entryId)
WithoutEntry(ents, entryId) == SelectSeq(ents, LAMBDA e : e.entry_id # entryId)

EntriesOfDate(ents, date) ==
  SortByTimestampDesc(SelectSeq(ents, LAMBDA e : e.date = date))

\* (variant: the end date left out of the range)
EntriesOfRangeExclusive(ents, startDate, endDate) ==
  SortByTimestampDesc(SelectSeq(ents, LAMBDA e : e.date >= startDate /\ e.date < endDate))

EntriesOfRange(ents, startDate, endDate) ==
  SortByTimestampDesc(SelectSeq(ents, LAMBDA e : e.date >= startDate /\ e.date <= endDate))

\* (variant: the total taken over the whole collection)
DayDataOfAllDates(ents, date) ==
  [date |-> date, entries |-> EntriesOfDate(ents, date),
   totalAmount |-> SeqSum([i \in 1..Len(ents) |-> ents[i].amount]),
   hasSpend |-> Len(EntriesOfDate(ents, date)) > 0]

DayDataOf(ents, date) ==
  [date |-> date, entries |-> EntriesOfDate(ents, date),
   totalAmount |-> SeqSum([i \in 1..Len(EntriesOfDate(ents, date)) |->
                              EntriesOfDate(ents, date)[i].amount]),
   hasSpend |-> Len(EntriesOfDate(ents, date)) > 0]

\* What the caller of getAllEntries does with the array it got, up to its
\* next storage call or its return.
AfterGetAllEntries(tk, ents) ==
  CASE tk.op \in {"add", "gen"} ->
         [tk EXCEPT !.pc = "saveEntries",
                    !.newEntry = NewSpendEntry(AddArgs(tk), uuid + 1, now),
                    !.entries = Append(ents, NewSpendEntry(AddArgs(tk), uuid + 1, now))]
    [] tk.op = "update" ->
         LET index == FindIndex(ents, LAMBDA e : e.entry_id = tk.id) IN
         IF index = 0 THEN Resolve(tk, <<"null">>)
         ELSE [tk EXCEPT !.pc = "saveEntries",
                         !.newEntry = UpdatedSpendEntry(ents[index], tk, now),
                         !.entries = [ents EXCEPT ![index] =
                                         UpdatedSpendEntry(ents[index], tk, now)]]
    [] tk.op = "delete" ->
         LET filtered == WithoutEntry(ents, tk.id) IN
         IF Len(filtered) = Len(ents) THEN Resolve(tk, <<"bool", FALSE>>)
         ELSE [tk EXCEPT !.pc = "saveEntries", !.entries = filtered]
    [] tk.op = "getEntriesForDate" ->
         Resolve(tk, <<"list", EntriesOfDate(ents, tk.date)>>)
    [] tk.op = "getEntriesForDateRange" ->
         Resolve(tk, <<"list", EntriesOfRange(ents, tk.date, tk.date2)>>)
    [] tk.op = "getDayData" ->
         Resolve(tk, <<"day", DayDataOf(ents, tk.date)>>)

\* getAllEntries after migrateFromV1: getItem and JSON.parse inside a try
\* whose catch returns []
GetAllEntries(t, fail) ==
  /\ Running(t) /\ tasks[t].pc = "getEntries"
  /\ LET ents == IF fail \/ spendEntries.st # "ok" THEN <<>> ELSE spendEntries.v IN
     /\ After(t, fail, AfterGetAllEntries(tasks[t], ents))
     /\ uuid' = IF tasks[t].op \in {"add", "gen"} THEN uuid + 1 ELSE uuid
  /\ UNCHANGED <<storage, clock, history>>

\* ------------------------------------------------------- the recurring engine
\* (variant: a month without the day gives its last day)
GetNextOccurrenceDateClamped(lastDate, frequency) ==
  LET date == ParseDate(lastDate)
      y == IF date.month = 12 THEN date.year + 1 ELSE date.year
      m == IF date.month = 12 THEN 1 ELSE date.month + 1
  IN
  CASE frequency = "weekly" -> FormatDate(date.year, date.month, date.day + 7)
    [] frequency = "biweekly" -> FormatDate(date.year, date.month, date.day + 14)
    [] frequency = "monthly" ->
         FormatDate(y, m, IF date.day > DaysInMonth(y, m) THEN DaysInMonth(y, m)
                          ELSE date.day)

GetNextOccurrenceDate(lastDate, frequency) ==
  LET date == ParseDate(lastDate) IN
  CASE frequency = "weekly" -> FormatDate(date.year, date.month, date.day + 7)
    [] frequency = "biweekly" -> FormatDate(date.year, date.month, date.day + 14)
    [] frequency = "monthly" -> FormatDate(date.year, date.month + 1, date.day)

\* (variant: the end date not tested at the head of the for body)
SkipsTemplateIgnoringEnd(recurring, todayStr) ==
  \/ ~recurring.is_active
  \/ recurring.start_date > todayStr

\* The three `continue` tests at the head of the for body.
SkipsTemplate(recurring, todayStr) ==
  \/ ~recurring.is_active
  \/ (recurring.end_date # NullDate /\ recurring.end_date < todayStr)
  \/ recurring.start_date > todayStr

\* (variant: every run starts over from start_date)
FirstNextDateFromStart(recurring) == recurring.start_date

\* let nextDate = last_generated_date ? getNextOccurrenceDate(...) : start_date
FirstNextDate(recurring) ==
  IF recurring.last_generated_date # NullDate
  THEN GetNextOccurrenceDate(recurring.last_generated_date, recurring.frequency)
  ELSE recurring.start_date

\* (variant: today's own occurrence left for tomorrow)
EntersWhileBodyStrict(recurring, nextDate, todayStr) ==
  /\ nextDate < todayStr
  /\ ~(recurring.end_date # NullDate /\ nextDate > recurring.end_date)

\* while (nextDate <= today) { if (end_date && nextDate > end_date) break; ...
EntersWhileBody(recurring, nextDate, todayStr) ==
  /\ nextDate <= todayStr
  /\ ~(recurring.end_date # NullDate /\ nextDate > recurring.end_date)

\* The engine between two storage calls: from the head of the for loop
\* (GenForLoop) or from the test of the while loop (GenWhileLoop) to the
\* next addSpendEntry, or to the setItem of the day's marker.
RECURSIVE GenForLoop(_), GenWhileLoop(_)
GenForLoop(tk) ==
  IF tk.idx > Len(tk.recurring) THEN [tk EXCEPT !.pc = "gen_setCheck"]
  ELSE IF SkipsTemplate(tk.recurring[tk.idx], tk.today)
       THEN GenForLoop([tk EXCEPT !.idx = tk.idx + 1])
       ELSE GenWhileLoop([tk EXCEPT !.nextDate = FirstNextDate(tk.recurring[tk.idx])])

GenWhileLoop(tk) ==
  IF EntersWhileBody(tk.recurring[tk.idx], tk.nextDate, tk.today)
  THEN [tk EXCEPT !.pc = "mig_getMarker"]
  ELSE GenForLoop([tk EXCEPT !.idx = tk.idx + 1, !.nextDate = NullDate])

\* after `await updateRecurringEntry(...)`: generated++ and the next date
AfterUpdateRecurring(tk) ==
  GenWhileLoop([tk EXCEPT !.generated = tk.generated + 1,
                          !.nextDate = GetNextOccurrenceDate(tk.nextDate,
                                          tk.recurring[tk.idx].frequency)])

\* (variant: a write that lands although the call throws)
SaveAllEntriesTorn(t, fail) ==
  /\ Running(t) /\ tasks[t].pc = "saveEntries"
  /\ spendEntries' = Stored(JsonArray(tasks[t].entries))
  /\ After(t, fail,
       IF fail THEN Reject(tasks[t])
       ELSE CASE tasks[t].op \in {"add", "update"} ->
                   Resolve(tasks[t], <<"entry", tasks[t].newEntry>>)
              [] tasks[t].op = "delete" -> Resolve(tasks[t], <<"bool", TRUE>>)
              [] tasks[t].op = "gen" -> [tasks[t] EXCEPT !.pc = "upd_getRecurring"])
  /\ generatedLog' =
       IF tasks[t].op = "gen" /\ ~fail
       THEN generatedLog \cup
              {[id |-> tasks[t].recurring[tasks[t].idx].id,
                date |-> tasks[t].nextDate,
                entry_id |-> tasks[t].newEntry.entry_id]}
       ELSE generatedLog
  /\ UNCHANGED <<migratedV2, dailyLogs, recurringEntries, lastRecurringCheck,
                 appSettings, subscription, clock, uuid, lateTemplates,
                 editedTemplates>>

\* (variant: a write that appends the new entry to what is stored now)
SaveAllEntriesMerging(t, fail) ==
  /\ Running(t) /\ tasks[t].pc = "saveEntries"
  /\ IF fail
     THEN /\ After(t, fail, Reject(tasks[t]))
          /\ UNCHANGED <<spendEntries, generatedLog>>
     ELSE /\ spendEntries' =
               IF tasks[t].op \in {"add", "gen"}
               THEN Stored(JsonArray(Append(IF spendEntries.st = "ok"
                                            THEN spendEntries.v ELSE <<>>,
                                            tasks[t].newEntry)))
               ELSE Stored(JsonArray(tasks[t].entries))
          /\ After(t, fail,
               CASE tasks[t].op \in {"add", "update"} ->
                      Resolve(tasks[t], <<"entry", tasks[t].newEntry>>)
                 [] tasks[t].op = "delete" -> Resolve(tasks[t], <<"bool", TRUE>>)
                 [] tasks[t].op = "gen" -> [tasks[t] EXCEPT !.pc = "upd_getRecurring"])
          /\ generatedLog' =
               IF tasks[t].op = "gen"
               THEN generatedLog \cup
                      {[id |-> tasks[t].recurring[tasks[t].idx].id,
                        date |-> tasks[t].nextDate,
                        entry_id |-> tasks[t].newEntry.entry_id]}
               ELSE generatedLog
  /\ UNCHANGED <<migratedV2, dailyLogs, recurringEntries, lastRecurringCheck,
                 appSettings, subscription, clock, uuid, lateTemplates,
                 editedTemplates>>

\* saveAllEntries: the write of the whole array, and the caller's return
SaveAllEntries(t, fail) ==
  /\ Running(t) /\ tasks[t].pc = "saveEntries"
  /\ IF fail
     THEN /\ After(t, fail, Reject(tasks[t]))
          /\ UNCHANGED <<spendEntries, generatedLog>>
     ELSE /\ spendEntries' = Stored(JsonArray(tasks[t].entries))
          /\ After(t, fail,
               CASE tasks[t].op \in {"add", "update"} ->
                      Resolve(tasks[t], <<"entry", tasks[t].newEntry>>)
                 [] tasks[t].op = "delete" -> Resolve(tasks[t], <<"bool", TRUE>>)
                 [] tasks[t].op = "gen" -> [tasks[t] EXCEPT !.pc = "upd_getRecurring"])
          /\ generatedLog' =
               IF tasks[t].op = "gen"
               THEN generatedLog \cup
                      {[id |-> tasks[t].recurring[tasks[t].idx].id,
                        date |-> tasks[t].nextDate,
                        entry_id |-> tasks[t].newEntry.entry_id]}
               ELSE generatedLog
  /\ UNCHANGED <<migratedV2, dailyLogs, recurringEntries, lastRecurringCheck,
                 appSettings, subscription, clock, uuid, lateTemplates,
                 editedTemplates>>

\* ---------------------------------------------------------------- templates
NoVals ==
  [amount |-> 0, category |-> NullStr, currency |-> NullStr, note |-> NullNote,
   frequency |-> "weekly", start_date |-> NullDate, end_date |-> NullDate,
   last_generated_date |-> NullDate, is_active |-> TRUE]

\* addRecurringEntry's newEntry
NewRecurringEntry(tk, id, at) ==
  [id |-> id, amount |-> tk.amount, category |-> OrUncategorized(tk.category),
   currency |-> tk.currency, note |-> tk.note, frequency |-> tk.frequency,
   start_date |-> tk.date, end_date |-> tk.date2,
   last_generated_date |-> NullDate, is_active |-> TRUE,
   created_at |-> at, updated_at |-> at]

\* { ...entries[index], ...updates, updated_at: Date.now() }
MergeRecurring(e, updates, at) ==
  [e EXCEPT
     !.amount = IF "amount" \in updates.keys THEN updates.vals.amount ELSE @,
     !.category = IF "category" \in updates.keys THEN updates.vals.category ELSE @,
     !.currency = IF "currency" \in updates.keys THEN updates.vals.currency ELSE @,
     !.note = IF "note" \in updates.keys THEN updates.vals.note ELSE @,
     !.frequency = IF "frequency" \in updates.keys THEN updates.vals.frequency ELSE @,
     !.start_date = IF "start_date" \in updates.keys THEN updates.vals.start_date ELSE @,
     !.end_date = IF "end_date" \in updates.keys THEN updates.vals.end_date ELSE @,
     !.last_generated_date = IF "last_generated_date" \in updates.keys
                             THEN updates.vals.last_generated_date ELSE @,
     !.is_active = IF "is_active" \in updates.keys THEN updates.vals.is_active ELSE @,
     !.updated_at = at]

\* (variant: the engine moving the start date along with the last date)
UpdateArgsMovingStart(tk) ==
  IF tk.op = "gen"
  THEN [id |-> tk.recurring[tk.idx].id,
        updates |-> [keys |-> {"last_generated_date", "start_date"},
                     vals |-> [NoVals EXCEPT !.last_generated_date = tk.nextDate,
                                             !.start_date = tk.nextDate]]]
  ELSE [id |-> tk.id, updates |-> tk.updates]

\* The arguments of the updateRecurringEntry a call makes: its own, or the
\* engine's (recurring.id, { last_generated_date: nextDate }).
UpdateArgs(tk) ==
  IF tk.op = "gen"
  THEN [id |-> tk.recurring[tk.idx].id,
        updates |-> [keys |-> {"last_generated_date"},
                     vals |-> [NoVals EXCEPT !.last_generated_date = tk.nextDate]]]
  ELSE [id |-> tk.id, updates |-> tk.updates]

\* getRecurringEntries: getItem and JSON.parse inside a try whose catch
\* returns []
ReadRecurring(fail) ==
  IF fail \/ recurringEntries.st # "ok" THEN <<>> ELSE recurringEntries.v

AddRecGet(t, fail) ==
  /\ Running(t) /\ tasks[t].pc = "addRec_get"
  /\ After(t, fail, [tasks[t] EXCEPT
                   !.pc = "addRec_set",
                   !.newEntry = NewRecurringEntry(tasks[t], uuid + 1, now),
                   !.recEntries = Append(ReadRecurring(fail),
                                         NewRecurringEntry(tasks[t], uuid + 1, now))])
  /\ uuid' = uuid + 1
  /\ UNCHANGED <<storage, clock, history>>

AddRecSet(t, fail) ==
  /\ Running(t) /\ tasks[t].pc = "addRec_set"
  /\ IF fail
     THEN /\ After(t, fail, Reject(tasks[t]))
          /\ UNCHANGED <<recurringEntries, lateTemplates>>
     ELSE /\ recurringEntries' = Stored(JsonArray(tasks[t].recEntries))
          /\ After(t, fail, Resolve(tasks[t], <<"recurring", tasks[t].newEntry>>))
          /\ lateTemplates' =
               IF lastRecurringCheck = today
               THEN lateTemplates \cup {[id |-> tasks[t].newEntry.id, day |-> today]}
               ELSE lateTemplates
  /\ UNCHANGED <<spendEntries, migratedV2, dailyLogs, lastRecurringCheck,
                 appSettings, subscription, clock, uuid, generatedLog,
                 editedTemplates>>

\* updateRecurringEntry up to its setItem
UpdGetRecurring(t, fail) ==
  /\ Running(t) /\ tasks[t].pc = "upd_getRecurring"
  /\ LET entries == ReadRecurring(fail)
         a == UpdateArgs(tasks[t])
         index == FindIndex(entries, LAMBDA e : e.id = a.id)
     IN After(t, fail,
          IF index = 0
          THEN IF tasks[t].op = "gen" THEN AfterUpdateRecurring(tasks[t])
               ELSE Resolve(tasks[t], <<"null">>)
          ELSE [tasks[t] EXCEPT
                  !.pc = "upd_setRecurring",
                  !.recEntries = [entries EXCEPT ![index] =
                                    MergeRecurring(entries[index], a.updates, now)]])
  /\ UNCHANGED <<storage, clock, uuid, history>>

UpdSetRecurring(t, fail) ==
  /\ Running(t) /\ tasks[t].pc = "upd_setRecurring"
  /\ IF fail
     THEN /\ After(t, fail, Reject(tasks[t]))
          /\ UNCHANGED <<recurringEntries, editedTemplates>>
     ELSE /\ recurringEntries' = Stored(JsonArray(tasks[t].recEntries))
          /\ After(t, fail, IF tasks[t].op = "gen" THEN AfterUpdateRecurring(tasks[t])
                        ELSE Resolve(tasks[t], <<"recurring">>))
          /\ editedTemplates' =
               IF tasks[t].op = "gen" THEN editedTemplates
               ELSE editedTemplates \cup {tasks[t].id}
  /\ UNCHANGED <<spendEntries, migratedV2, dailyLogs, lastRecurringCheck,
                 appSettings, subscription, clock, uuid, generatedLog,
                 lateTemplates>>

\* (variant: no early return)
GenGetCheckNoGuard(t, fail) ==
  /\ Running(t) /\ tasks[t].pc = "gen_getCheck"
  /\ After(t, fail, IF fail THEN Reject(tasks[t])
                    ELSE [tasks[t] EXCEPT !.pc = "gen_getRecurring"])
  /\ UNCHANGED <<storage, clock, uuid, history>>

\* the guard taken as "a run has completed on some day"
GenGetCheckAnyDay(t, fail) ==
  /\ Running(t) /\ tasks[t].pc = "gen_getCheck"
  /\ After(t, fail, IF fail THEN Reject(tasks[t])
                ELSE IF lastRecurringCheck # NullDate
                     THEN Resolve(tasks[t], <<"num", 0>>)
                     ELSE [tasks[t] EXCEPT !.pc = "gen_getRecurring"])
  /\ UNCHANGED <<storage, clock, uuid, history>>

\* generateRecurringEntriesForToday: the guard
GenGetCheck(t, fail) ==
  /\ Running(t) /\ tasks[t].pc = "gen_getCheck"
  /\ After(t, fail, IF fail THEN Reject(tasks[t])
                ELSE IF lastRecurringCheck = tasks[t].today
                     THEN Resolve(tasks[t], <<"num", 0>>)
                     ELSE [tasks[t] EXCEPT !.pc = "gen_getRecurring"])
  /\ UNCHANGED <<storage, clock, uuid, history>>

\* const recurringEntries = await getRecurringEntries(); let generated = 0
GenGetRecurring(t, fail) ==
  /\ Running(t) /\ tasks[t].pc = "gen_getRecurring"
  /\ After(t, fail, GenForLoop([tasks[t] EXCEPT !.recurring = ReadRecurring(fail),
                                            !.generated = 0, !.idx = 1]))
  /\ UNCHANGED <<storage, clock, uuid, history>>

\* await AsyncStorage.setItem(LAST_RECURRING_CHECK_KEY, today); return generated
GenSetCheck(t, fail) ==
  /\ Running(t) /\ tasks[t].pc = "gen_setCheck"
  /\ IF fail
     THEN /\ After(t, fail, Reject(tasks[t]))
          /\ UNCHANGED lastRecurringCheck
     ELSE /\ lastRecurringCheck' = tasks[t].today
          /\ After(t, fail, Resolve(tasks[t], <<"num", tasks[t].generated>>))
  /\ UNCHANGED <<spendEntries, migratedV2, dailyLogs, recurringEntries,
                 appSettings, subscription, clock, uuid, history>>

\* ------------------------------------------------- settings and subscription
\* A stored settings or subscription object is [keys, vals]: the fields the
\* JSON text has, and their values.
SettingsKeys ==
  {"daily_reminder_time", "notifications_enabled", "free_history_days", "tone",
   "first_launch_at", "onboarding_completed", "show_onboarding_on_launch",
   "default_currency", "theme_mode", "updated_at"}

SubscriptionKeys == {"plan", "is_active", "expires_at", "source", "updated_at"}

GetDefaultSettings(at) ==
  [daily_reminder_time |-> "20:00", notifications_enabled |-> FALSE,
   free_history_days |-> 30, tone |-> "calm", first_launch_at |-> NullInstant,
   onboarding_completed |-> FALSE, show_onboarding_on_launch |-> FALSE,
   default_currency |-> "USD", theme_mode |-> "system", updated_at |-> at]

GetDefaultSubscription(at) ==
  [plan |-> "free", is_active |-> FALSE, expires_at |-> NullInstant,
   source |-> NullStr, updated_at |-> at]

\* { ...base, ...partial } for settings
SpreadSettings(base, p) ==
  [base EXCEPT
     !.daily_reminder_time =
        IF "daily_reminder_time" \in p.keys THEN p.vals.daily_reminder_time ELSE @,
     !.notifications_enabled =
        IF "notifications_enabled" \in p.keys THEN p.vals.notifications_enabled ELSE @,
     !.free_history_days =
        IF "free_history_days" \in p.keys THEN p.vals.free_history_days ELSE @,
     !.tone = IF "tone" \in p.keys THEN p.vals.tone ELSE @,
     !.first_launch_at =
        IF "first_launch_at" \in p.keys THEN p.vals.first_launch_at ELSE @,
     !.onboarding_completed =
        IF "onboarding_completed" \in p.keys THEN p.vals.onboarding_completed ELSE @,
     !.show_onboarding_on_launch =
        IF "show_onboarding_on_launch" \in p.keys
        THEN p.vals.show_onboarding_on_launch ELSE @,
     !.default_currency =
        IF "default_currency" \in p.keys THEN p.vals.default_currency ELSE @,
     !.theme_mode = IF "theme_mode" \in p.keys THEN p.vals.theme_mode ELSE @,
     !.updated_at = IF "updated_at" \in p.keys THEN p.vals.updated_at ELSE @]

\* { ...base, ...partial } for a subscription
SpreadSubscription(base, p) ==
  [base EXCEPT
     !.plan = IF "plan" \in p.keys THEN p.vals.plan ELSE @,
     !.is_active = IF "is_active" \in p.keys THEN p.vals.is_active ELSE @,
     !.expires_at = IF "expires_at" \in p.keys THEN p.vals.expires_at ELSE @,
     !.source = IF "source" \in p.keys THEN p.vals.source ELSE @,
     !.updated_at = IF "updated_at" \in p.keys THEN p.vals.updated_at ELSE @]

\* getAppSettings: the stored object over the defaults; the defaults when
\* nothing is stored or the read or the parse throws
ReadAppSettings(fail) ==
  IF fail \/ appSettings.st # "ok" THEN GetDefaultSettings(now)
  ELSE SpreadSettings(GetDefaultSettings(now), appSettings.v)

ReadSubscription(fail) ==
  IF fail \/ subscription.st # "ok" THEN GetDefaultSubscription(now)
  ELSE SpreadSubscription(GetDefaultSubscription(now), subscription.v)

\* (variant: premium through the instant expires_at)
IsPremiumThroughExpiry(sub, at) ==
  IF sub.plan = "lifetime" THEN TRUE
  ELSE IF sub.is_active /\ sub.plan # "free"
       THEN IF sub.expires_at = NullInstant THEN TRUE ELSE sub.expires_at >= at
       ELSE FALSE

\* (variant: expires_at not looked at)
IsPremiumNoExpiry(sub, at) ==
  IF sub.plan = "lifetime" THEN TRUE
  ELSE sub.is_active /\ sub.plan # "free"

IsPremium(sub, at) ==
  IF sub.plan = "lifetime" THEN TRUE
  ELSE IF sub.is_active /\ sub.plan # "free"
       THEN IF sub.expires_at = NullInstant THEN TRUE ELSE sub.expires_at > at
       ELSE FALSE

\* getAppSettings, as a call of its own or inside updateAppSettings
GetAppSettings(t, fail) ==
  /\ Running(t) /\ tasks[t].pc = "getSettings"
  /\ After(t, fail,
       IF tasks[t].op = "updateAppSettings"
       THEN [tasks[t] EXCEPT
               !.pc = "setSettings",
               !.updated = [SpreadSettings(ReadAppSettings(fail), tasks[t].updates)
                              EXCEPT !.updated_at = now]]
       ELSE Resolve(tasks[t], <<"settings", ReadAppSettings(fail)>>))
  /\ UNCHANGED <<storage, clock, uuid, history>>

SetAppSettings(t, fail) ==
  /\ Running(t) /\ tasks[t].pc = "setSettings"
  /\ IF fail
     THEN /\ After(t, fail, Reject(tasks[t]))
          /\ UNCHANGED appSettings
     ELSE /\ appSettings' = Stored([keys |-> SettingsKeys, vals |-> tasks[t].updated])
          /\ After(t, fail, Resolve(tasks[t], <<"void">>))
  /\ UNCHANGED <<spendEntries, migratedV2, dailyLogs, recurringEntries,
                 lastRecurringCheck, subscription, clock, uuid, history>>

\* getSubscription, as a call of its own, inside updateSubscription, or
\* followed by the screen's isPremium(subscription)
GetSubscription(t, fail) ==
  /\ Running(t) /\ tasks[t].pc = "getSubscription"
  /\ After(t, fail,
       CASE tasks[t].op = "updateSubscription" ->
              [tasks[t] EXCEPT
                 !.pc = "setSubscription",
                 !.updated = [SpreadSubscription(ReadSubscription(fail), tasks[t].updates)
                                EXCEPT !.updated_at = now]]
         [] tasks[t].op = "isPremium" ->
              Resolve(tasks[t], <<"premium", ReadSubscription(fail),
                                  IsPremium(ReadSubscription(fail), now), now>>)
         [] OTHER -> Resolve(tasks[t], <<"subscription", ReadSubscription(fail)>>))
  /\ UNCHANGED <<storage, clock, uuid, history>>

SetSubscription(t, fail) ==
  /\ Running(t) /\ tasks[t].pc = "setSubscription"
  /\ IF fail
     THEN /\ After(t, fail, Reject(tasks[t]))
          /\ UNCHANGED subscription
     ELSE /\ subscription' = Stored([keys |-> SubscriptionKeys, vals |-> tasks[t].updated])
          /\ After(t, fail, Resolve(tasks[t], <<"void">>))
  /\ UNCHANGED <<spendEntries, migratedV2, dailyLogs, recurringEntries,
                 lastRecurringCheck, appSettings, clock, uuid, history>>

\* ------------------------------------------------------------ calls and clock
StartGenerate(t) ==
  /\ FreeSlot(t)
  /\ SetTask(t, Begin([IdleTask EXCEPT !.op = "gen", !.pc = "gen_getCheck",
                                       !.today = today]))
  /\ UNCHANGED <<storage, clock, uuid, history>>

StartAddRecurring(t, in) ==
  /\ FreeSlot(t)
  /\ SetTask(t, Begin([IdleTask EXCEPT
                         !.op = "addRec", !.pc = "addRec_get",
                         !.amount = in.amount, !.frequency = in.frequency,
                         !.date = in.startDate, !.category = in.category,
                         !.currency = in.currency, !.note = in.note,
                         !.date2 = in.endDate]))
  /\ UNCHANGED <<storage, clock, uuid, history>>

StartUpdateRecurring(t, id, updates) ==
  /\ FreeSlot(t)
  /\ SetTask(t, Begin([IdleTask EXCEPT !.op = "updRec", !.pc = "upd_getRecurring",
                                       !.id = id, !.updates = updates]))
  /\ UNCHANGED <<storage, clock, uuid, history>>

StartAddSpendEntry(t, date, amount, category, note, currency) ==
  /\ FreeSlot(t)
  /\ SetTask(t, Begin([IdleTask EXCEPT
                         !.op = "add", !.pc = "mig_getMarker", !.date = date,
                         !.amount = amount, !.category = category,
                         !.note = note, !.currency = currency]))
  /\ UNCHANGED <<storage, clock, uuid, history>>

StartUpdateSpendEntry(t, entryId, amount, category, note, currency) ==
  /\ FreeSlot(t)
  /\ SetTask(t, Begin([IdleTask EXCEPT
                         !.op = "update", !.pc = "mig_getMarker", !.id = entryId,
                         !.amount = amount, !.category = category,
                         !.note = note, !.currency = currency]))
  /\ UNCHANGED <<storage, clock, uuid, history>>

StartDeleteSpendEntry(t, entryId) ==
  /\ FreeSlot(t)
  /\ SetTask(t, Begin([IdleTask EXCEPT !.op = "delete", !.pc = "mig_getMarker",
                                       !.id = entryId]))
  /\ UNCHANGED <<storage, clock, uuid, history>>

\* getEntriesForDate, getEntriesForDateRange or getDayData
StartRead(t, op, date, date2) ==
  /\ FreeSlot(t)
  /\ SetTask(t, Begin([IdleTask EXCEPT !.op = op, !.pc = "mig_getMarker",
                                       !.date = date, !.date2 = date2]))
  /\ UNCHANGED <<storage, clock, uuid, history>>

StartGetAppSettings(t) ==
  /\ FreeSlot(t)
  /\ SetTask(t, Begin([IdleTask EXCEPT !.op = "getAppSettings", !.pc = "getSettings"]))
  /\ UNCHANGED <<storage, clock, uuid, history>>

StartUpdateAppSettings(t, partial) ==
  /\ FreeSlot(t)
  /\ SetTask(t, Begin([IdleTask EXCEPT !.op = "updateAppSettings",
                                       !.pc = "getSettings",
                                       !.updates = partial]))
  /\ UNCHANGED <<storage, clock, uuid, history>>

\* getSubscription, or a screen's getSubscription and isPremium
StartGetSubscription(t, op) ==
  /\ FreeSlot(t)
  /\ SetTask(t, Begin([IdleTask EXCEPT !.op = op, !.pc = "getSubscription"]))
  /\ UNCHANGED <<storage, clock, uuid, history>>

StartUpdateSubscription(t, partial) ==
  /\ FreeSlot(t)
  /\ SetTask(t, Begin([IdleTask EXCEPT !.op = "updateSubscription",
                                       !.pc = "getSubscription",
                                       !.updates = partial]))
  /\ UNCHANGED <<storage, clock, uuid, history>>

\* the caller has the call's result
Return(t) ==
  /\ Done(t)
  /\ SetTask(t, IdleTask)
  /\ UNCHANGED <<storage, clock, uuid, history>>

\* midnight passes, k times
AdvanceDay(k) ==
  /\ today + k <= MaxDay
  /\ today' = today + k
  /\ UNCHANGED <<storage, now, uuid, tasks, history>>

Tick ==
  /\ now < MaxNow
  /\ now' = now + 1
  /\ UNCHANGED <<storage, today, uuid, tasks, history>>

\* a step of a call whose storage call succeeds
StepOk(t) ==
  \/ MigGetMarker(t, FALSE)
  \/ MigGetOld(t, FALSE)
  \/ MigSetEntries(t, FALSE)
  \/ MigSetMarker(t, FALSE)
  \/ MigCatch(t, FALSE)
  \/ GetAllEntries(t, FALSE)
  \/ SaveAllEntries(t, FALSE)

\* the steps of the engine and of updateRecurringEntry
StepEngineOk(t) ==
  \/ UpdGetRecurring(t, FALSE)
  \/ UpdSetRecurring(t, FALSE)
  \/ GenGetCheck(t, FALSE)
  \/ GenGetRecurring(t, FALSE)
  \/ GenSetCheck(t, FALSE)

StepRecurringOk(t) ==
  \/ AddRecGet(t, FALSE)
  \/ AddRecSet(t, FALSE)
  \/ StepEngineOk(t)

\* a step of a call whose storage call throws
StepFail(t) ==
  \/ MigGetMarker(t, TRUE)
  \/ MigGetOld(t, TRUE)
  \/ MigSetEntries(t, TRUE)
  \/ MigSetMarker(t, TRUE)
  \/ MigCatch(t, TRUE)
  \/ GetAllEntries(t, TRUE)
  \/ SaveAllEntries(t, TRUE)

StepStoreOk(t) ==
  \/ GetAppSettings(t, FALSE)
  \/ SetAppSettings(t, FALSE)
  \/ GetSubscription(t, FALSE)
  \/ SetSubscription(t, FALSE)

StepStoreFail(t) ==
  \/ GetAppSettings(t, TRUE)
  \/ SetAppSettings(t, TRUE)
  \/ GetSubscription(t, TRUE)
  \/ SetSubscription(t, TRUE)

\* ------------------------------------------------------------ initial states
LegacyLog(id, date, didSpend, amount, category, note, createdAt) ==
  [id |-> id, date |-> date, did_spend |-> didSpend, amount |-> amount,
   category |-> category, note |-> note, created_at |-> createdAt,
   updated_at |-> createdAt + 1]

\* a first launch of this version: nothing stored but, on a device that ran
\* the previous version, the legacy daily log
FreshStore ==
  /\ spendEntries = Absent
  /\ migratedV2 = "absent"
  /\ recurringEntries = Absent
  /\ lastRecurringCheck = NullDate
  /\ appSettings = Absent
  /\ subscription = Absent
  /\ uuid = 0
  /\ tasks = [t \in TaskIds |-> IdleTask]
  /\ generatedLog = {}
  /\ lateTemplates = {}
  /\ editedTemplates = {}

\* an install on which the migration has run: the marker is set, and the
\* collection is the converted legacy log, if there was one
MigratedStore ==
  /\ spendEntries = IF dailyLogs.st = "ok" THEN Stored(ConvertLegacy(dailyLogs.v))
                    ELSE Absent
  /\ migratedV2 = "true"
  /\ recurringEntries = Absent
  /\ lastRecurringCheck = NullDate
  /\ appSettings = Absent
  /\ subscription = Absent
  /\ uuid = 0
  /\ tasks = [t \in TaskIds |-> IdleTask]
  /\ generatedLog = {}
  /\ lateTemplates = {}
  /\ editedTemplates = {}

\* the steps of getAllEntries and saveAllEntries once the marker is set
StepMigratedOk(t) ==
  \/ MigGetMarker(t, FALSE)
  \/ GetAllEntries(t, FALSE)
  \/ SaveAllEntries(t, FALSE)

\* ------------------------------------------------- the engine, one call at a time
MaxTemplates == 1

\* what the template form passes to addRecurringEntry; the form takes no
\* start date before today and no end date that is not after the start date
TemplateInputs ==
  { [amount |-> 5, frequency |-> "weekly", startDate |-> 7, category |-> NullStr,
     currency |-> NullStr, note |-> NullNote, endDate |-> NullDate],
    [amount |-> 12, frequency |-> "biweekly", startDate |-> 3, category |-> "Rent",
     currency |-> "USD", note |-> <<"gym">>, endDate |-> 20],
    [amount |-> 9, frequency |-> "monthly", startDate |-> 30, category |-> "Rent",
     currency |-> "EUR", note |-> <<>>, endDate |-> NullDate],
    [amount |-> 7, frequency |-> "monthly", startDate |-> 0, category |-> "",
     currency |-> "USD", note |-> <<"net">>, endDate |-> 62] }

DaySteps == {14, 31}

\* the pause/play button of the template list: { is_active: !entry.is_active }
TemplateEdits ==
  { [keys |-> {"is_active"}, vals |-> [NoVals EXCEPT !.is_active = FALSE]],
    [keys |-> {"is_active"}, vals |-> [NoVals EXCEPT !.is_active = TRUE]] }

\* the template form saving a template it has loaded, its category set to
\* "None": every field of the form is passed, category as null
FormKeys == {"amount", "currency", "category", "note", "frequency", "start_date",
             "end_date", "is_active"}

ClearCategory(r) ==
  [keys |-> FormKeys,
   vals |-> [NoVals EXCEPT !.amount = r.amount, !.currency = r.currency,
                           !.category = NullStr, !.note = r.note,
                           !.frequency = r.frequency, !.start_date = r.start_date,
                           !.end_date = r.end_date, !.is_active = r.is_active]]

StoredTemplates == IF recurringEntries.st = "ok" THEN recurringEntries.v ELSE <<>>

StoredEntries == IF spendEntries.st = "ok" THEN spendEntries.v ELSE <<>>

InitRecurring ==
  /\ dailyLogs = Absent
  /\ MigratedStore
  /\ today = 0
  /\ now = 0

\* The day screen runs the engine whenever it loads today, so a day on
\* which the app is used has its run; the days the clock skips are days on
\* which the app is not opened.
NextRecurring ==
  \/ \E t \in TaskIds : AllIdle /\ StartGenerate(t)
  \/ \E t \in TaskIds, in \in TemplateInputs :
       /\ AllIdle /\ Len(StoredTemplates) < MaxTemplates
       /\ in.startDate >= today
       /\ StartAddRecurring(t, in)
  \/ \E t \in TaskIds, i \in 1..Len(StoredTemplates), u \in TemplateEdits :
       /\ AllIdle
       /\ StoredTemplates[i].is_active # u.vals.is_active
       /\ StartUpdateRecurring(t, StoredTemplates[i].id, u)
  \/ \E t \in TaskIds, i \in 1..Len(StoredTemplates) :
       /\ AllIdle
       /\ StoredTemplates[i].category # NullStr
       /\ StartUpdateRecurring(t, StoredTemplates[i].id, ClearCategory(StoredTemplates[i]))
  \/ \E t \in TaskIds : StepMigratedOk(t)
  \/ \E t \in TaskIds : StepRecurringOk(t)
  \/ \E t \in TaskIds : Return(t)
  \/ \E k \in DaySteps : AllIdle /\ lastRecurringCheck = today /\ AdvanceDay(k)

SpecRecurring == InitRecurring /\ [][NextRecurring]_vars

\* --------------------------------------------------------- claims C1 to C3

\* The schedule of a template up to a day: start_date and the dates the
\* period advancement gives from it, while <= day and <= end_date.
RECURSIVE OccurrencesFrom(_, _, _)
OccurrencesFrom(d, r, day) ==
  IF d > day \/ (r.end_date # NullDate /\ d > r.end_date) THEN <<>>
  ELSE <<d>> \o OccurrencesFrom(GetNextOccurrenceDate(d, r.frequency), r, day)

Occurrences(r, day) == OccurrencesFrom(r.start_date, r, day)

\* the stored entries the engine added for template id, in stored order
EntriesOfTemplate(id) ==
  SelectSeq(StoredEntries,
            LAMBDA e : \E g \in generatedLog : g.id = id /\ g.entry_id = e.entry_id)

LastGeneratedOf(id) ==
  LET i == FindIndex(StoredTemplates, LAMBDA r : r.id = id) IN
  IF i = 0 THEN NullDate ELSE StoredTemplates[i].last_generated_date

GenDone(t) == tasks[t].op = "gen" /\ tasks[t].status = "resolved"

\* the templates a run saw that claim C1 is about
CatchUpCase(tk, i) ==
  /\ tk.recurring[i].last_generated_date = NullDate
  /\ ~SkipsTemplate(tk.recurring[i], tk.today)

\* A run that passed the guard, on an active template with
\* lastGeneratedDate = null and startDate <= today, adds exactly one entry
\* for each scheduled date <= today and <= endDate, in increasing date
\* order, each with the template's amount and currency, the category
\* Category(template) and the note "[Recurring]" or "[Recurring] <note>",
\* sets lastGeneratedDate to the last of these dates, and returns the number
\* of entries it added.
CatchUp(Category(_)) ==
  \A t \in TaskIds :
    GenDone(t) =>
      /\ tasks[t].result = <<"num", Cardinality(generatedLog) - tasks[t].preLog>>
      /\ \A i \in 1..Len(tasks[t].recurring) :
           CatchUpCase(tasks[t], i) =>
             LET r == tasks[t].recurring[i]
                 occ == Occurrences(r, tasks[t].today)
                 added == EntriesOfTemplate(r.id)
             IN /\ Len(added) = Len(occ)
                /\ Len(occ) >= 1
                /\ \A k \in 1..Len(added) :
                     /\ added[k].date = occ[k]
                     /\ added[k].amount = r.amount
                     /\ added[k].category = Category(r)
                     /\ added[k].currency = r.currency
                     /\ added[k].note =
                          IF r.note \in {NullNote, <<>>} THEN <<RecurringTag>>
                          ELSE <<RecurringTag, " ">> \o r.note
                /\ \A k \in 1..(Len(occ) - 1) : occ[k] < occ[k + 1]
                /\ LastGeneratedOf(r.id) = occ[Len(occ)]

\* C1 as stated: single-run catch-up, each entry with the template's category.
C1_CatchUpAsStated == CatchUp(LAMBDA r : r.category)

\* C1 amended: single-run catch-up, each entry with the template's category,
\* or "Uncategorized" when the template has none (null or empty).
C1_CatchUp ==
  CatchUp(LAMBDA r : IF r.category \in {NullStr, ""} THEN "Uncategorized"
                     ELSE r.category)

C1_Witness ==
  \E t \in TaskIds :
    /\ GenDone(t)
    /\ \E i \in 1..Len(tasks[t].recurring) :
         /\ CatchUpCase(tasks[t], i)
         /\ Len(Occurrences(tasks[t].recurring[i], tasks[t].today)) >= 3
         /\ tasks[t].recurring[i].frequency = "monthly"
         /\ tasks[t].recurring[i].category = NullStr
    /\ tasks[t].result[2] >= 3

\* Every scheduled date of template r up to the day has exactly one entry.
ExactlyOnce(r, day) ==
  LET occ == Occurrences(r, day)
      logs == {g \in generatedLog : g.id = r.id}
  IN /\ {g.date : g \in logs} = SeqToSet(occ)
     /\ Cardinality(logs) = Len(occ)
     /\ \A g \in logs :
          Cardinality({j \in 1..Len(StoredEntries) :
                         StoredEntries[j].entry_id = g.entry_id}) = 1
     /\ \A j \in 1..Len(StoredEntries) :
          \A g \in logs :
            StoredEntries[j].entry_id = g.entry_id => StoredEntries[j].date = g.date

\* the templates claim C2 is about after a run on the day: not edited and
\* active
SteadyTemplate(r, day) ==
  /\ r.id \notin editedTemplates
  /\ ~SkipsTemplate(r, day)

\* C2 as stated: after each completed run, every scheduled date <= that day
\* (and <= endDate) of a template that was not edited and is active has
\* exactly one entry.
C2_AfterEveryRun ==
  \A t \in TaskIds :
    GenDone(t) =>
      \A i \in 1..Len(StoredTemplates) :
        SteadyTemplate(StoredTemplates[i], tasks[t].today) =>
          ExactlyOnce(StoredTemplates[i], tasks[t].today)

\* C2 amended: the same, except for a template that was saved on the day of
\* the run after that day's first completed run (the later runs of that day
\* stop at the guard; the first run of a later day catches up).
C2_ExactlyOnce ==
  \A t \in TaskIds :
    GenDone(t) =>
      \A i \in 1..Len(StoredTemplates) :
        (/\ SteadyTemplate(StoredTemplates[i], tasks[t].today)
         /\ [id |-> StoredTemplates[i].id, day |-> tasks[t].today] \notin lateTemplates)
        => ExactlyOnce(StoredTemplates[i], tasks[t].today)

\* a run that follows a run of an earlier day and backfills several periods
C2_Witness ==
  \E t \in TaskIds :
    /\ GenDone(t)
    /\ tasks[t].preCheck # NullDate /\ tasks[t].preCheck < tasks[t].today
    /\ tasks[t].result[2] >= 2
    /\ \E i \in 1..Len(tasks[t].recurring) :
         /\ tasks[t].recurring[i].last_generated_date # NullDate
         /\ SteadyTemplate(tasks[t].recurring[i], tasks[t].today)
         /\ Len(Occurrences(tasks[t].recurring[i], tasks[t].today)) >= 3

\* a call made when the day's marker already was the day
GuardedCall(t) == GenDone(t) /\ tasks[t].preCheck = tasks[t].today

\* the result and the frame of a guarded call
C3_GuardHolds ==
  \A t \in TaskIds :
    GuardedCall(t) =>
      /\ tasks[t].result = <<"num", 0>>
      /\ spendEntries = tasks[t].preEntries
      /\ recurringEntries = tasks[t].preRecurring

C3_GuardKept ==
  (lastRecurringCheck = today) => (lastRecurringCheck' = today' \/ today' # today)

\* C3: a call made on a day on which a call has completed returns 0, adds no
\* entry and changes no template, whatever templates there are and whatever
\* was added or edited in between; and the marker stops being the day only
\* by the day changing.
C3_OncePerDay == [](C3_GuardHolds) /\ [][C3_GuardKept]_vars

\* a guarded call although a template has a date due
C3_Witness ==
  \E t \in TaskIds :
    /\ GuardedCall(t)
    /\ \E i \in 1..Len(StoredTemplates) :
         /\ ~SkipsTemplate(StoredTemplates[i], today)
         /\ EntersWhileBody(StoredTemplates[i], FirstNextDate(StoredTemplates[i]), today)

\* ------------------------------------------------ the ledger, one call at a time
\* legacy rows a store holds at most
MaxLegacy == 2

\* rows of the legacy daily log: spends with and without a category and a
\* note, a no-spend day, and spends whose amount is null, 0 or negative
LegacyMenu ==
  << LegacyLog(101, 0, TRUE, <<4>>, NullStr, NullNote, 0),
     LegacyLog(102, 1, TRUE, <<6>>, "Dining", <<"lunch">>, 1),
     LegacyLog(103, 2, FALSE, <<>>, NullStr, NullNote, 1),
     LegacyLog(104, 3, TRUE, <<>>, "Dining", NullNote, 2),
     LegacyLog(105, 4, TRUE, <<0>>, NullStr, <<"free">>, 2),
     LegacyLog(106, 5, FALSE, <<3>>, "Dining", NullNote, 0),
     LegacyLog(107, 6, TRUE, <<0 - 2>>, NullStr, NullNote, 1) >>

LegacyStores ==
  { Stored(SelectSeq(LegacyMenu, LAMBDA r : r.id \in ids)) :
      ids \in {x \in SUBSET {LegacyMenu[i].id : i \in 1..Len(LegacyMenu)} :
                 Cardinality(x) >= 1 /\ Cardinality(x) <= MaxLegacy} }

\* arguments of addSpendEntry and of updateSpendEntry
AddInputs ==
  { [date |-> 0, amount |-> 5, category |-> NullStr, note |-> NullNote,
     currency |-> NullStr],
    [date |-> 1, amount |-> 3, category |-> "Food", note |-> <<"tea">>,
     currency |-> "USD"] }

UpdateInputs ==
  { [amount |-> 8, category |-> "", note |-> <<>>, currency |-> "EUR"] }

\* the ids update and delete are called with: the stored ones and a missing one
CallIds == {StoredEntries[i].entry_id : i \in 1..Len(StoredEntries)} \cup {0}

ReadOps == {"getEntriesForDate", "getEntriesForDateRange", "getDayData"}

InitLedger ==
  /\ FreshStore
  /\ dailyLogs \in {Absent, Corrupt} \cup LegacyStores
  /\ today = 0
  /\ now = 0

\* the calls of the day screen and of the overview, one at a time
StartLedgerCall(t) ==
  \/ \E in \in AddInputs :
       /\ uuid < MaxIds
       /\ StartAddSpendEntry(t, in.date, in.amount, in.category, in.note, in.currency)
  \/ \E id \in CallIds, in \in UpdateInputs :
       StartUpdateSpendEntry(t, id, in.amount, in.category, in.note, in.currency)
  \/ \E id \in CallIds : StartDeleteSpendEntry(t, id)
  \/ \E op \in ReadOps, d \in 0..1 : StartRead(t, op, d, d + 1)

NextLedger ==
  \/ \E t \in TaskIds : AllIdle /\ StartLedgerCall(t)
  \/ \E t \in TaskIds : StepOk(t)
  \/ \E t \in TaskIds : Return(t)
  \/ AllIdle /\ Tick

SpecLedger == InitLedger /\ [][NextLedger]_vars

\* --------------------------------------------------------- claims C7 and C8
LegacyIds == IF dailyLogs.st = "ok"
             THEN {dailyLogs.v[i].id : i \in 1..Len(dailyLogs.v)} ELSE {}

\* a call that began after a run of the migrator had set the marker
SecondRun(t) == ~Idle(t) /\ tasks[t].preMarker = "true"

\* C7: a run of the migrator after a completed one leaves the entry
\* collection as it was when the call began, whatever was added, updated or
\* deleted since the first run, and does not read or convert the legacy log;
\* so the legacy log is converted by a call that found no marker, only.
C7_Idempotent ==
  \A t \in TaskIds :
    /\ SecondRun(t) =>
         /\ ~tasks[t].readLegacy
         /\ ~tasks[t].migWrote
         /\ tasks[t].pc \in {"mig_getMarker", "getEntries"} =>
              spendEntries = tasks[t].preEntries
    /\ tasks[t].migWrote => tasks[t].preMarker = "absent"

\* the migrator has run again over a collection that is no longer the
\* converted one, a converted entry still in it
C7_Witness ==
  \E t \in TaskIds :
    /\ SecondRun(t) /\ tasks[t].pc = "getEntries"
    /\ dailyLogs.st = "ok"
    /\ StoredEntries # ConvertLegacy(dailyLogs.v)
    /\ \E i, j \in 1..Len(StoredEntries) :
         /\ StoredEntries[i].entry_id \in LegacyIds
         /\ StoredEntries[j].entry_id \notin LegacyIds

\* the migrator has just returned in this call, having read a parsable
\* legacy log, no storage call having failed
MigrationSucceeded(t) ==
  /\ tasks[t].pc = "getEntries" /\ tasks[t].readLegacy
  /\ tasks[t].faults = {} /\ dailyLogs.st = "ok"

\* C8: after a successful migration the collection has exactly one entry for
\* each legacy row with did_spend true and amount > 0, with the row's id,
\* date, amount, note, created_at and updated_at, its category or
\* "Uncategorized" when the row has none, and timestamp = created_at; a row
\* with did_spend false, or a null or non-positive amount, has no entry.
C8_Conversion ==
  \A t \in TaskIds :
    MigrationSucceeded(t) =>
      LET rows == dailyLogs.v
          spends == {i \in 1..Len(rows) :
                       /\ rows[i].did_spend
                       /\ rows[i].amount # <<>>
                       /\ rows[i].amount[1] > 0}
      IN /\ Len(StoredEntries) = Cardinality(spends)
         /\ \A i \in spends :
              \E j \in 1..Len(StoredEntries) :
                /\ StoredEntries[j].entry_id = rows[i].id
                /\ \A k \in 1..Len(StoredEntries) :
                     StoredEntries[k].entry_id = rows[i].id => k = j
                /\ StoredEntries[j].date = rows[i].date
                /\ StoredEntries[j].amount = rows[i].amount[1]
                /\ StoredEntries[j].note = rows[i].note
                /\ StoredEntries[j].created_at = rows[i].created_at
                /\ StoredEntries[j].updated_at = rows[i].updated_at
                /\ StoredEntries[j].timestamp = rows[i].created_at
                /\ StoredEntries[j].category =
                     IF rows[i].category = NullStr THEN "Uncategorized"
                     ELSE rows[i].category
         /\ \A i \in (1..Len(rows)) \ spends :
              \A j \in 1..Len(StoredEntries) :
                StoredEntries[j].entry_id # rows[i].id

\* two rows, one a spend without a category, the other not a spend
C8_Witness ==
  \E t \in TaskIds :
    /\ MigrationSucceeded(t)
    /\ Len(dailyLogs.v) = 2
    /\ Len(StoredEntries) = 1
    /\ StoredEntries[1].category = "Uncategorized"
    /\ \E i \in 1..2 : ~dailyLogs.v[i].did_spend /\ dailyLogs.v[i].amount # <<>>

\* ------------------------------------- storage failures, one call at a time
\* the currency picker of the settings screen: { default_currency }
SettingsPartials ==
  { [keys |-> {"default_currency"},
     vals |-> [GetDefaultSettings(0) EXCEPT !.default_currency = "EUR"]] }

\* a purchase on the paywall: a subscription with an end, or for life
PurchasePartials ==
  { [keys |-> {"plan", "is_active", "expires_at", "source"},
     vals |-> [GetDefaultSubscription(0) EXCEPT
                 !.plan = "monthly", !.is_active = TRUE, !.expires_at = 1,
                 !.source = "apple"]],
    [keys |-> {"plan", "is_active", "expires_at", "source"},
     vals |-> [GetDefaultSubscription(0) EXCEPT
                 !.plan = "lifetime", !.is_active = TRUE,
                 !.expires_at = NullInstant, !.source = "apple"]] }

StartStoreCall(t) ==
  \/ StartGetAppSettings(t)
  \/ StartGetSubscription(t, "getSubscription")
  \/ \E p \in SettingsPartials : StartUpdateAppSettings(t, p)
  \/ \E p \in PurchasePartials : StartUpdateSubscription(t, p)

NextFaults ==
  \/ \E t \in TaskIds : AllIdle /\ StartLedgerCall(t)
  \/ \E t \in TaskIds : AllIdle /\ StartStoreCall(t)
  \/ \E t \in TaskIds : StepOk(t)
  \/ \E t \in TaskIds : StepFail(t)
  \/ \E t \in TaskIds : StepStoreOk(t)
  \/ \E t \in TaskIds : StepStoreFail(t)
  \/ \E t \in TaskIds : Return(t)

SpecFaults == InitLedger /\ [][NextFaults]_vars

\* --------------------------------------------------- claims C5, C6 and C9
MutatingOps == {"add", "update", "delete"}
AllReadOps == ReadOps \cup {"getAppSettings", "getSubscription"}

\* the steps that are a setItem, and those that are a getItem
SetSteps == {"mig_setEntries", "mig_setMarker", "mig_catch", "saveEntries"}
GetSteps == {"mig_getMarker", "mig_getOld", "getEntries", "getSettings",
             "getSubscription"}

\* C5 as stated: a call of addSpendEntry, updateSpendEntry or
\* deleteSpendEntry during which a setItem failed has rejected, and the
\* stored collection is the one from before the call.
C5_AnySetFailure ==
  \A t \in TaskIds :
    (tasks[t].op \in MutatingOps /\ Done(t) /\ tasks[t].faults \cap SetSteps # {}) =>
      /\ tasks[t].status = "rejected"
      /\ spendEntries = tasks[t].preEntries

\* C5 amended: when the setItem of saveAllEntries fails, the call rejects and
\* the stored collection is the one from before the call, or, if this call
\* ran the one-time migration, the converted legacy collection the migration
\* wrote; and a call rejects only if that setItem, the read of the marker or
\* the setItem in the migration's catch failed (a failed setItem inside the
\* migration's try is swallowed).
C5_SaveFailure ==
  \A t \in TaskIds :
    tasks[t].op \in MutatingOps =>
      /\ "saveEntries" \in tasks[t].faults =>
           /\ tasks[t].status = "rejected"
           /\ spendEntries = IF tasks[t].migWrote
                             THEN Stored(ConvertLegacy(dailyLogs.v))
                             ELSE tasks[t].preEntries
      /\ tasks[t].status = "rejected" =>
           tasks[t].faults \cap {"saveEntries", "mig_getMarker", "mig_catch"} # {}

\* an update of a stored entry whose write failed
C5_Witness ==
  \E t \in TaskIds :
    /\ tasks[t].op = "update" /\ "saveEntries" \in tasks[t].faults
    /\ tasks[t].status = "rejected"
    /\ \E i \in 1..Len(StoredEntries) : StoredEntries[i].entry_id = tasks[t].id

\* the result of a read over an empty store
SafeDefault(tk) ==
  CASE tk.op \in {"getEntriesForDate", "getEntriesForDateRange"} -> <<"list", <<>>>>
    [] tk.op = "getDayData" -> <<"day", DayDataOf(<<>>, tk.date)>>
    [] tk.op = "getAppSettings" -> <<"settings", GetDefaultSettings(now)>>
    [] tk.op = "getSubscription" -> <<"subscription", GetDefaultSubscription(now)>>

\* C6: a read during which getItem calls failed (and nothing else) resolves,
\* with the safe default, and does not reject.
C6_ReadsNeverReject ==
  \A t \in TaskIds :
    (/\ tasks[t].op \in AllReadOps /\ Done(t)
     /\ tasks[t].faults # {} /\ tasks[t].faults \subseteq GetSteps) =>
      /\ tasks[t].status = "resolved"
      /\ tasks[t].result = SafeDefault(tasks[t])

\* the marker after a return of the migrator, and what a later call does
C9_MarkerSet ==
  \A t \in TaskIds :
    /\ tasks[t].pc = "getEntries" => migratedV2 = "true"
    /\ SecondRun(t) =>
         /\ ~tasks[t].readLegacy /\ ~tasks[t].migWrote
         /\ tasks[t].pc \notin {"mig_getOld", "mig_setEntries", "mig_setMarker",
                                "mig_catch"}

C9_MarkerKept == (migratedV2 = "true") => (migratedV2' = "true")

\* C9: when the migrator has returned, the marker is set, also after a
\* failed conversion (legacy log unparsable, or a failed write of the
\* converted entries); the marker stays set; and a call that began with the
\* marker set does not read or convert the legacy log.
C9_ForwardProgress == [](C9_MarkerSet) /\ [][C9_MarkerKept]_vars

\* a later call, after a conversion that failed: the legacy log has spends,
\* the collection has none of them, and the migrator has returned at once
C9_Witness ==
  \E t \in TaskIds :
    /\ SecondRun(t) /\ tasks[t].pc = "getEntries"
    /\ dailyLogs.st = "ok" /\ Len(ConvertLegacy(dailyLogs.v)) > 0
    /\ spendEntries = Absent

\* ----------------------------------------------- calls that run concurrently
\* identifiers handed out before the screens stop starting calls
MaxUuid == 2

\* templates due on the first day
TemplatesDueAtOnce == {in \in TemplateInputs : in.startDate = 0}

\* the template a call of addRecurringEntry with the input stored, as its
\* first identifier
TemplateOf(in) ==
  NewRecurringEntry([IdleTask EXCEPT
                       !.amount = in.amount, !.frequency = in.frequency,
                       !.date = in.startDate, !.category = in.category,
                       !.currency = in.currency, !.note = in.note,
                       !.date2 = in.endDate], 1, 0)

\* an install on which the migration has run and a template due today has
\* been saved; the engine has not run today
InitConcurrent ==
  /\ dailyLogs = Absent
  /\ spendEntries = Absent
  /\ migratedV2 = "true"
  /\ \E in \in TemplatesDueAtOnce : recurringEntries = Stored(<<TemplateOf(in)>>)
  /\ lastRecurringCheck = NullDate
  /\ appSettings = Absent
  /\ subscription = Absent
  /\ uuid = 1
  /\ tasks = [t \in TaskIds |-> IdleTask]
  /\ generatedLog = {}
  /\ lateTemplates = {}
  /\ editedTemplates = {}
  /\ today = 0
  /\ now = 0

\* Screens start calls without waiting for one another: the day screen's
\* load runs the engine while a save of the entry form is in flight.
NextConcurrent ==
  \/ \E t \in TaskIds : uuid < MaxUuid /\ StartGenerate(t)
  \/ \E t \in TaskIds, in \in {a \in AddInputs : a.date = today} :
       /\ uuid < MaxUuid
       /\ StartAddSpendEntry(t, in.date, in.amount, in.category, in.note, in.currency)
  \/ \E t \in TaskIds : StepMigratedOk(t)
  \/ \E t \in TaskIds : StepEngineOk(t)
  \/ \E t \in TaskIds : Return(t)

SpecConcurrent == InitConcurrent /\ [][NextConcurrent]_vars

\* ------------------------------------------------------------------ claim C4
InStore(id) == \E i \in 1..Len(StoredEntries) : StoredEntries[i].entry_id = id

\* the call has just written the collection with its new entry in it: a
\* resolved addSpendEntry, or the engine back from its addSpendEntry
WroteNewEntry(t) ==
  \/ tasks[t].op = "add" /\ tasks[t].status = "resolved"
  \/ tasks[t].op = "gen" /\ tasks[t].pc = "upd_getRecurring"

\* both calls read the collection before either wrote it: neither has the
\* other's new entry in the array it read
ReadSameSnapshot(t, u) ==
  /\ \A i \in 1..Len(tasks[t].entries) :
       tasks[t].entries[i].entry_id # tasks[u].newEntry.entry_id
  /\ \A i \in 1..Len(tasks[u].entries) :
       tasks[u].entries[i].entry_id # tasks[t].newEntry.entry_id

\* C4: when two adds that read the collection before either wrote it have
\* both written it with success, the collection lacks the entry of one of
\* them.
C4_LostUpdate ==
  \A t, u \in TaskIds :
    (t # u /\ WroteNewEntry(t) /\ WroteNewEntry(u) /\ ReadSameSnapshot(t, u)) =>
      ~(InStore(tasks[t].newEntry.entry_id) /\ InStore(tasks[u].newEntry.entry_id))

\* a manual add has resolved, the engine has added its entry, and the manual
\* entry is not in the collection
C4_Witness ==
  \E t, u \in TaskIds :
    /\ tasks[t].op = "add" /\ tasks[t].status = "resolved"
    /\ tasks[u].op = "gen" /\ tasks[u].pc = "upd_getRecurring"
    /\ ReadSameSnapshot(t, u)
    /\ ~InStore(tasks[t].newEntry.entry_id)
    /\ InStore(tasks[u].newEntry.entry_id)

\* ----------------------------------------------------------- the entitlement
Plans == {"free", "monthly", "yearly", "lifetime"}

\* a subscription record as updateSubscription can be given it: any plan,
\* active or not, without an end or with one before, at or after the clock
SubscriptionPartials ==
  { [keys |-> {"plan", "is_active", "expires_at", "source"},
     vals |-> [GetDefaultSubscription(0) EXCEPT
                 !.plan = p, !.is_active = a, !.expires_at = e, !.source = "apple"]] :
      p \in Plans, a \in BOOLEAN, e \in {NullInstant} \cup (0..(MaxNow + 1)) }

StepSubscriptionOk(t) ==
  \/ GetSubscription(t, FALSE)
  \/ SetSubscription(t, FALSE)

InitAccess ==
  /\ FreshStore
  /\ dailyLogs = Absent
  /\ today = 0
  /\ now = 0

NextAccess ==
  \/ \E t \in TaskIds, p \in SubscriptionPartials :
       AllIdle /\ StartUpdateSubscription(t, p)
  \/ \E t \in TaskIds : AllIdle /\ StartGetSubscription(t, "isPremium")
  \/ \E t \in TaskIds : StepSubscriptionOk(t)
  \/ \E t \in TaskIds : Return(t)
  \/ AllIdle /\ Tick

SpecAccess == InitAccess /\ [][NextAccess]_vars

\* ----------------------------------------------------------------- claim C10
PremiumAsked(t) == tasks[t].op = "isPremium" /\ tasks[t].status = "resolved"

\* C10: isPremium(subscription) is true iff plan is lifetime, or is_active
\* and plan is monthly or yearly and expires_at is null or later than now; so
\* it is false for plan free, active or not, and for the default subscription.
C10_IsPremium ==
  \A t \in TaskIds :
    PremiumAsked(t) =>
      LET sub == tasks[t].result[2]
          answer == tasks[t].result[3]
          at == tasks[t].result[4]
      IN /\ answer <=>
              \/ sub.plan = "lifetime"
              \/ /\ sub.is_active
                 /\ sub.plan \in {"monthly", "yearly"}
                 /\ (sub.expires_at = NullInstant \/ sub.expires_at > at)
         /\ sub.plan = "free" => ~answer
         /\ (sub.plan = "free" /\ ~sub.is_active /\ sub.expires_at = NullInstant
             /\ sub.source = NullStr) => ~answer

\* an active monthly plan asked about at the instant it ends
C10_Witness ==
  \E t \in TaskIds :
    /\ PremiumAsked(t)
    /\ tasks[t].result[2].plan = "monthly" /\ tasks[t].result[2].is_active
    /\ tasks[t].result[2].expires_at = tasks[t].result[4]
    /\ tasks[t].result[4] > 0
    /\ ~tasks[t].result[3]

\* ------------------------------------------------------------ access control
\* The day on which the device's zone sets its clocks forward by an hour
\* (2024-03-10): the local midnights after it come an hour sooner.
DstStartDay == 69

\* new Date(s + "T00:00:00").getTime(), in hours
LocalMidnight(d) == 24 * d - (IF d > DstStartDay THEN 1 ELSE 0)

\* Math.round(hours / 24): the nearest integer, a half rounded up
RoundDays(h) == (2 * h + 24) \div 48

\* (variant: today not let through before the window is looked at)
CanViewDateWindowOnly(date, sub, freeHistoryDays, todayStr, at) ==
  IF IsPremium(sub, at) THEN TRUE
  ELSE LET diffTime == LocalMidnight(todayStr) - LocalMidnight(date)
           diffDays == RoundDays(diffTime)
       IN diffDays >= 0 /\ diffDays <= freeHistoryDays

CanViewDate(date, sub, freeHistoryDays, todayStr, at) ==
  IF IsPremium(sub, at) THEN TRUE
  ELSE IF date = todayStr THEN TRUE
  ELSE LET diffTime == LocalMidnight(todayStr) - LocalMidnight(date)
           diffDays == RoundDays(diffTime)
       IN diffDays >= 0 /\ diffDays <= freeHistoryDays

\* the days on which the gate is asked, around the change of the clocks
ViewDays == {DstStartDay, DstStartDay + 1, DstStartDay + 3}

\* the dates asked about: behind today, today, and ahead of it
ViewDates == {today - k : k \in 0..4} \cup {today + 1, today + 30}

\* free_history_days as given to the gate
ViewWindows == (0 - 2)..3

\* subscriptions as getSubscription returns them
ViewSubscriptions ==
  { [GetDefaultSubscription(0) EXCEPT !.plan = p, !.is_active = a, !.expires_at = e] :
      p \in {"free", "monthly", "lifetime"}, a \in BOOLEAN,
      e \in {NullInstant, MaxNow} }

\* a screen asks canViewDate(targetDate, subscription, settings.free_history_days)
StartCanViewDate(t, date, sub, n) ==
  /\ FreeSlot(t)
  /\ SetTask(t, Resolve(Begin([IdleTask EXCEPT !.op = "canViewDate", !.date = date,
                                               !.today = today]),
                        <<"view", date, sub, n, today, now,
                          CanViewDate(date, sub, n, today, now)>>))
  /\ UNCHANGED <<storage, clock, uuid, history>>

InitView ==
  /\ FreshStore
  /\ dailyLogs = Absent
  /\ today \in ViewDays
  /\ now = 0

NextView ==
  \/ \E t \in TaskIds, d \in ViewDates, sub \in ViewSubscriptions, n \in ViewWindows :
       AllIdle /\ StartCanViewDate(t, d, sub, n)
  \/ \E t \in TaskIds : Return(t)
  \/ AllIdle /\ Tick

SpecView == InitView /\ [][NextView]_vars

\* ----------------------------------------------------------------- claim C11
ViewAsked(t) == tasks[t].op = "canViewDate" /\ tasks[t].status = "resolved"

\* C11: for a premium subscription canViewDate is true for every date; for a
\* subscription that is not premium it is true exactly when the date is today
\* or 0 <= today - date (in days) <= n.  So today is viewable whatever the
\* subscription and n (n < 0 too), a future date is not viewable without
\* premium, and for a window n >= 0 the day today - n is viewable and the day
\* today - (n + 1) is not.
C11_CanViewDate ==
  \A t \in TaskIds :
    ViewAsked(t) =>
      LET date == tasks[t].result[2]
          sub == tasks[t].result[3]
          n == tasks[t].result[4]
          td == tasks[t].result[5]
          at == tasks[t].result[6]
          answer == tasks[t].result[7]
          premium == \/ sub.plan = "lifetime"
                     \/ /\ sub.is_active /\ sub.plan # "free"
                        /\ (sub.expires_at = NullInstant \/ sub.expires_at > at)
      IN /\ premium => answer
         /\ ~premium => (answer <=> (date = td \/ (0 <= td - date /\ td - date <= n)))
         /\ date = td => answer
         /\ (~premium /\ date > td) => ~answer
         /\ (~premium /\ n >= 0 /\ date = td - n) => answer
         /\ (~premium /\ n >= 0 /\ date = td - (n + 1)) => ~answer

\* the last day of a window of 3 days, asked about across the change of the
\* clocks by a free subscription
C11_Witness ==
  \E t \in TaskIds :
    /\ ViewAsked(t)
    /\ tasks[t].result[3].plan = "free"
    /\ tasks[t].result[4] = 3
    /\ tasks[t].result[2] = tasks[t].result[5] - 3
    /\ tasks[t].result[2] <= DstStartDay /\ tasks[t].result[5] > DstStartDay
    /\ tasks[t].result[7]

\* ------------------------------------------- queries and edits of a filled ledger
\* Ledgers the migration left: two entries of one day stored oldest first,
\* two entries of one day with one timestamp, and entries of other days.
QueryRows ==
  << LegacyLog(201, 1, TRUE, <<4>>, "Food", NullNote, 0),
     LegacyLog(202, 0, TRUE, <<2>>, NullStr, <<"tip">>, 1),
     LegacyLog(203, 1, TRUE, <<6>>, "Dining", NullNote, 1),
     LegacyLog(204, 2, TRUE, <<9>>, "Food", NullNote, 0),
     LegacyLog(205, 1, TRUE, <<1>>, NullStr, NullNote, 0) >>

QueryStores ==
  { Stored(<<QueryRows[1], QueryRows[2], QueryRows[3]>>),
    Stored(<<QueryRows[1], QueryRows[5], QueryRows[4]>>) }

\* the dates the screens ask about: those of the ledger, and one beyond
QueryDates == 0..3

\* what the entry form passes to updateSpendEntry
EditInputs ==
  UpdateInputs \cup
  { [amount |-> 3, category |-> "Travel", note |-> <<"bus">>, currency |-> NullStr] }

InitQueries ==
  /\ dailyLogs \in QueryStores
  /\ MigratedStore
  /\ today = 0
  /\ now = 0

StartQuery(t) ==
  \/ \E a \in QueryDates, b \in QueryDates :
       StartRead(t, "getEntriesForDateRange", a, b)
  \/ \E op \in {"getEntriesForDate", "getDayData"}, d \in QueryDates :
       StartRead(t, op, d, NullDate)

StartEdit(t) ==
  \/ \E id \in CallIds, in \in EditInputs :
       StartUpdateSpendEntry(t, id, in.amount, in.category, in.note, in.currency)
  \/ \E id \in CallIds : StartDeleteSpendEntry(t, id)

NextQueries ==
  \/ \E t \in TaskIds : AllIdle /\ StartQuery(t)
  \/ \E t \in TaskIds : AllIdle /\ StartEdit(t)
  \/ \E t \in TaskIds : StepMigratedOk(t)
  \/ \E t \in TaskIds : Return(t)
  \/ AllIdle /\ Tick

SpecQueries == InitQueries /\ [][NextQueries]_vars

\* ----------------------------------------------------- claims C12 and C13
Asked(t, op) == tasks[t].op = op /\ tasks[t].status = "resolved"

\* how often the stored entry j is in the list
TimesIn(list, j) ==
  Cardinality({i \in 1..Len(list) : list[i] = StoredEntries[j]})

\* C12: getEntriesForDateRange(a, b) returns a stored entry e once when
\* a <= e.date <= b and not at all otherwise, returns nothing that is not
\* stored, and returns the empty list when a > b.
C12_RangeQuery ==
  \A t \in TaskIds :
    Asked(t, "getEntriesForDateRange") =>
      LET a == tasks[t].date
          b == tasks[t].date2
          list == tasks[t].result[2]
      IN /\ \A j \in 1..Len(StoredEntries) :
              TimesIn(list, j) =
                IF a <= StoredEntries[j].date /\ StoredEntries[j].date <= b
                THEN 1 ELSE 0
         /\ \A i \in 1..Len(list) : \E j \in 1..Len(StoredEntries) :
              list[i] = StoredEntries[j]
         /\ a > b => list = <<>>

\* a range that ends on a day with entries and leaves a stored entry out
C12_Witness ==
  \E t \in TaskIds :
    /\ Asked(t, "getEntriesForDateRange")
    /\ tasks[t].date < tasks[t].date2
    /\ \E i \in 1..Len(tasks[t].result[2]) :
         tasks[t].result[2][i].date = tasks[t].date2
    /\ Len(tasks[t].result[2]) >= 2
    /\ Len(tasks[t].result[2]) < Len(StoredEntries)

RECURSIVE SumOfAmounts(_)
SumOfAmounts(ents) ==
  IF ents = {} THEN 0
  ELSE LET e == CHOOSE x \in ents : TRUE IN e.amount + SumOfAmounts(ents \ {e})

\* C13: getDayData(date) returns the stored entries of that date, each once
\* and no other, latest timestamp first, with totalAmount the sum of their
\* amounts and hasSpend true iff there is one.
C13_DayView ==
  \A t \in TaskIds :
    Asked(t, "getDayData") =>
      LET day == tasks[t].result[2]
          same == {j \in 1..Len(StoredEntries) : StoredEntries[j].date = tasks[t].date}
      IN /\ day.date = tasks[t].date
         /\ Len(day.entries) = Cardinality(same)
         /\ \A j \in 1..Len(StoredEntries) :
              TimesIn(day.entries, j) = IF j \in same THEN 1 ELSE 0
         /\ \A i, k \in 1..Len(day.entries) :
              i < k => day.entries[i].timestamp >= day.entries[k].timestamp
         /\ day.totalAmount = SumOfAmounts({StoredEntries[j] : j \in same})
         /\ day.hasSpend <=> same # {}

\* a day with two entries stored oldest first, in a ledger with other days
C13_Witness ==
  \E t \in TaskIds :
    /\ Asked(t, "getDayData")
    /\ Len(tasks[t].result[2].entries) = 2
    /\ Len(StoredEntries) > 2
    /\ \E i, k \in 1..Len(StoredEntries) :
         /\ i < k
         /\ StoredEntries[i] = tasks[t].result[2].entries[2]
         /\ StoredEntries[k] = tasks[t].result[2].entries[1]
    /\ tasks[t].result[2].totalAmount < SumOfAmounts(SeqToSet(StoredEntries))

\* ----------------------------------------------------- claims C14 and C15
\* the array getAllEntries gave the call: the stored one, the marker being set
ReadByCall(t) == IF tasks[t].preEntries.st = "ok" THEN tasks[t].preEntries.v ELSE <<>>

\* the places of the id in that array
Hits(t) == {i \in 1..Len(ReadByCall(t)) : ReadByCall(t)[i].entry_id = tasks[t].id}

\* C14: updateSpendEntry of a stored id sets amount, category (the argument,
\* or "Uncategorized" for null or ""), note and currency of that entry and
\* sets updated_at to the clock; entry_id, date, timestamp and created_at of
\* the entry, every other entry, and the order and size of the collection stay;
\* it returns the entry as stored.  For an id that is not stored it returns
\* null and the stored item is never written.
C14_UpdateFrame ==
  \A t \in TaskIds :
    tasks[t].op = "update" =>
      LET pre == ReadByCall(t) IN
      IF Hits(t) = {}
      THEN /\ spendEntries = tasks[t].preEntries
           /\ tasks[t].pc # "saveEntries"
           /\ Done(t) => tasks[t].result = <<"null">>
      ELSE Done(t) =>
             LET i == CHOOSE h \in Hits(t) : \A g \in Hits(t) : h <= g IN
             /\ tasks[t].status = "resolved"
             /\ tasks[t].result = <<"entry", StoredEntries[i]>>
             /\ Len(StoredEntries) = Len(pre)
             /\ \A j \in 1..Len(pre) : j # i => StoredEntries[j] = pre[j]
             /\ StoredEntries[i].amount = tasks[t].amount
             /\ StoredEntries[i].category =
                  IF tasks[t].category \in {NullStr, ""} THEN "Uncategorized"
                  ELSE tasks[t].category
             /\ StoredEntries[i].note = tasks[t].note
             /\ StoredEntries[i].currency = tasks[t].currency
             /\ StoredEntries[i].updated_at = now
             /\ StoredEntries[i].entry_id = pre[i].entry_id
             /\ StoredEntries[i].date = pre[i].date
             /\ StoredEntries[i].timestamp = pre[i].timestamp
             /\ StoredEntries[i].created_at = pre[i].created_at

\* an update of the second of three entries, at an instant that is neither
\* its timestamp nor its updated_at
C14_Witness ==
  \E t \in TaskIds :
    /\ tasks[t].op = "update" /\ tasks[t].status = "resolved"
    /\ Hits(t) = {2} /\ Len(ReadByCall(t)) = 3
    /\ ReadByCall(t)[2].updated_at # now
    /\ ReadByCall(t)[2].timestamp # now
    /\ ReadByCall(t)[2].amount # tasks[t].amount
    /\ StoredEntries[2].category = "Travel"

\* C15: deleteSpendEntry of an id that is not stored returns false and the
\* stored item is never written; of a stored id it returns true, and the
\* collection is the one before without the entries of that id, the others
\* as they were and in their order.
C15_Delete ==
  \A t \in TaskIds :
    tasks[t].op = "delete" =>
      LET pre == ReadByCall(t) IN
      IF Hits(t) = {}
      THEN /\ spendEntries = tasks[t].preEntries
           /\ tasks[t].pc # "saveEntries"
           /\ Done(t) => tasks[t].result = <<"bool", FALSE>>
      ELSE Done(t) =>
             /\ tasks[t].result = <<"bool", TRUE>>
             /\ Len(StoredEntries) = Len(pre) - Cardinality(Hits(t))
             /\ \A j \in (1..Len(pre)) \ Hits(t) :
                  StoredEntries[j - Cardinality({h \in Hits(t) : h < j})] = pre[j]

\* the first of three entries deleted
C15_Witness ==
  \E t \in TaskIds :
    /\ tasks[t].op = "delete" /\ tasks[t].status = "resolved"
    /\ Hits(t) = {1} /\ Len(ReadByCall(t)) = 3
    /\ Len(StoredEntries) = 2

\* --------------------------------------------------- the amounts of the ledger
\* parseFloat of the text of an amount field: nothing or zeros, a number,
\* and digits beyond the range of a double
ParsedAmounts == {0, 5, Infinity}

\* the forms go on unless isNaN(parsedAmount) || parsedAmount <= 0
AmountAccepted(parsedAmount) == ~(parsedAmount <= 0)

\* the template form saving a template it has loaded with another amount
EditAmount(r, parsedAmount) ==
  [keys |-> FormKeys,
   vals |-> [NoVals EXCEPT !.amount = parsedAmount, !.currency = r.currency,
                           !.category = r.category, !.note = r.note,
                           !.frequency = r.frequency, !.start_date = r.start_date,
                           !.end_date = r.end_date, !.is_active = r.is_active]]

\* a first launch over a legacy log that cannot be parsed, or one with a
\* spend and with rows whose amount is 0 or negative
InitAmounts ==
  /\ FreshStore
  /\ dailyLogs \in {Corrupt, Stored(<<LegacyMenu[1], LegacyMenu[5], LegacyMenu[7]>>)}
  /\ today = 0
  /\ now = 0

\* the entry form and the template form, with the amounts they let through
StartFormCall(t, parsedAmount) ==
  \/ /\ uuid < MaxUuid
     /\ StartAddSpendEntry(t, today, parsedAmount, "Food", NullNote, "USD")
  \/ \E id \in CallIds : StartUpdateSpendEntry(t, id, parsedAmount, "Food", NullNote, "USD")
  \/ \E in \in TemplatesDueAtOnce :
       /\ StoredTemplates = <<>>
       /\ StartAddRecurring(t, [in EXCEPT !.amount = parsedAmount])
  \/ \E i \in 1..Len(StoredTemplates) :
       /\ StoredTemplates[i].amount # JsonNumber(parsedAmount)
       /\ StartUpdateRecurring(t, StoredTemplates[i].id,
                               EditAmount(StoredTemplates[i], parsedAmount))

NextAmounts ==
  \/ \E t \in TaskIds, a \in ParsedAmounts :
       AllIdle /\ AmountAccepted(a) /\ StartFormCall(t, a)
  \/ \E t \in TaskIds : AllIdle /\ uuid < MaxUuid /\ StartGenerate(t)
  \/ \E t \in TaskIds : StepOk(t)
  \/ \E t \in TaskIds : StepRecurringOk(t)
  \/ \E t \in TaskIds : Return(t)

SpecAmounts == InitAmounts /\ [][NextAmounts]_vars

\* ----------------------------------------------------------------- claim C16
\* C16: every stored SpendEntry has amount > 0, whatever the migration, the
\* entry form, the template form and the engine have done.
C16_AmountPositive ==
  \A j \in 1..Len(StoredEntries) :
    StoredEntries[j].amount # NullAmount /\ StoredEntries[j].amount > 0

\* ------------------------------------------------- edits of a template's schedule
\* the template form saving a template it has loaded with another start
\* date, end date or frequency (the form takes any start date for a template
\* it edits, and an end date after the start date)
EditSchedule(r, startDate, endDate, frequency) ==
  [keys |-> FormKeys,
   vals |-> [NoVals EXCEPT !.amount = r.amount, !.currency = r.currency,
                           !.category = r.category, !.note = r.note,
                           !.frequency = frequency, !.start_date = startDate,
                           !.end_date = endDate, !.is_active = r.is_active]]

\* the schedules the form is saved with: the start date three weeks later
\* or as it is, the end date taken off or as it is, the frequency weekly or
\* as it is
ScheduleEdits(r) ==
  { EditSchedule(r, s, e, f) :
      s \in {r.start_date, r.start_date + 21},
      e \in {NullDate, r.end_date},
      f \in {r.frequency, "weekly"} }

ScheduleChanged(r, u) ==
  \/ u.vals.start_date # r.start_date
  \/ u.vals.end_date # r.end_date
  \/ u.vals.frequency # r.frequency

InitSchedules ==
  /\ dailyLogs = Absent
  /\ MigratedStore
  /\ today = 0
  /\ now = 0

NextSchedules ==
  \/ \E t \in TaskIds : AllIdle /\ StartGenerate(t)
  \/ \E t \in TaskIds, in \in TemplateInputs :
       /\ AllIdle /\ StoredTemplates = <<>>
       /\ in.startDate >= today
       /\ StartAddRecurring(t, in)
  \/ \E t \in TaskIds, i \in 1..Len(StoredTemplates) :
       \E u \in ScheduleEdits(StoredTemplates[i]) :
         /\ AllIdle
         /\ ScheduleChanged(StoredTemplates[i], u)
         /\ u.vals.end_date = NullDate \/ u.vals.end_date > u.vals.start_date
         /\ u.vals.start_date <= MaxDay
         /\ StartUpdateRecurring(t, StoredTemplates[i].id, u)
  \/ \E t \in TaskIds : StepMigratedOk(t)
  \/ \E t \in TaskIds : StepRecurringOk(t)
  \/ \E t \in TaskIds : Return(t)
  \/ \E k \in DaySteps : AllIdle /\ lastRecurringCheck = today /\ AdvanceDay(k)

SpecSchedules == InitSchedules /\ [][NextSchedules]_vars

\* ----------------------------------------------------------------- claim C17
\* C17: the last_generated_date of every stored template is null, or a date
\* >= its start_date for which the engine added an entry from that template.
C17_LastGenerated ==
  \A i \in 1..Len(StoredTemplates) :
    LET r == StoredTemplates[i] IN
    \/ r.last_generated_date = NullDate
    \/ /\ r.last_generated_date >= r.start_date
       /\ \E g \in generatedLog : g.id = r.id /\ g.date = r.last_generated_date

\* the second half alone: a last_generated_date is a date for which the
\* engine added an entry from that template
C17_ProducedByTemplate ==
  \A i \in 1..Len(StoredTemplates) :
    LET r == StoredTemplates[i] IN
    \/ r.last_generated_date = NullDate
    \/ \E g \in generatedLog : g.id = r.id /\ g.date = r.last_generated_date

\* ----------------------------------------------------------------- claim C18
\* a run of the engine that has read the templates
RunOf(t) == tasks[t].op = "gen" /\ ~Idle(t)

\* the stored entries the run has added: those the collection did not have
\* when the call began
AddedByRun(t) ==
  {e \in SeqToSet(StoredEntries) :
     \A i \in 1..Len(ReadByCall(t)) : ReadByCall(t)[i].entry_id # e.entry_id}

\* the template an entry was generated from
TemplateIdOf(e) ==
  IF \E g \in generatedLog : g.entry_id = e.entry_id
  THEN (CHOOSE g \in generatedLog : g.entry_id = e.entry_id).id
  ELSE 0

\* paused, pending or ended on the day of the run
NotActiveOn(r, day) ==
  \/ ~r.is_active
  \/ r.start_date > day
  \/ (r.end_date # NullDate /\ r.end_date < day)

\* during a run and after it, a template the run read as paused, pending or
\* ended has no entry added by the run and its last_generated_date is the
\* one the run read
C18_InactiveSpawnNothing ==
  \A t \in TaskIds :
    RunOf(t) =>
      \A i \in 1..Len(tasks[t].recurring) :
        NotActiveOn(tasks[t].recurring[i], tasks[t].today) =>
          /\ \A e \in AddedByRun(t) : TemplateIdOf(e) # tasks[t].recurring[i].id
          /\ LastGeneratedOf(tasks[t].recurring[i].id) =
               tasks[t].recurring[i].last_generated_date

\* every entry a run adds has a date d with d <= today and, when end_date is
\* set, d <= end_date
C18_DatesBounded ==
  \A t \in TaskIds :
    RunOf(t) =>
      \A e \in AddedByRun(t) :
        \E i \in 1..Len(tasks[t].recurring) :
          /\ tasks[t].recurring[i].id = TemplateIdOf(e)
          /\ e.date <= tasks[t].today
          /\ tasks[t].recurring[i].end_date # NullDate =>
               e.date <= tasks[t].recurring[i].end_date

\* every entry a run adds has a date d with start_date <= d
C18_DatesFromStart ==
  \A t \in TaskIds :
    RunOf(t) =>
      \A e \in AddedByRun(t) :
        \E i \in 1..Len(tasks[t].recurring) :
          /\ tasks[t].recurring[i].id = TemplateIdOf(e)
          /\ tasks[t].recurring[i].start_date <= e.date

\* C18: in a run of the engine a template that is paused, pending or ended
\* produces no entry and keeps its last_generated_date, and every entry the
\* run adds has a date d with start_date <= d <= today and, when end_date is
\* set, d <= end_date.
C18_OnlyActiveSpawn ==
  C18_InactiveSpawnNothing /\ C18_DatesBounded /\ C18_DatesFromStart

\* ------------------------------------------- the engine over a ledger in use
InitOwnership ==
  /\ dailyLogs = Absent
  /\ MigratedStore
  /\ today = 0
  /\ now = 0

\* entries are added by hand, a template is saved, the engine runs on the
\* days the app is opened, and the clock goes on: one call at a time
NextOwnership ==
  \/ \E t \in TaskIds : AllIdle /\ StartGenerate(t)
  \/ \E t \in TaskIds, in \in TemplateInputs :
       /\ AllIdle /\ StoredTemplates = <<>>
       /\ in.startDate >= today
       /\ StartAddRecurring(t, in)
  \/ \E t \in TaskIds, in \in {a \in AddInputs : a.date = today} :
       /\ AllIdle /\ uuid < MaxUuid
       /\ StartAddSpendEntry(t, in.date, in.amount, in.category, in.note, in.currency)
  \/ \E t \in TaskIds : StepMigratedOk(t)
  \/ \E t \in TaskIds : StepRecurringOk(t)
  \/ \E t \in TaskIds : Return(t)
  \/ AllIdle /\ Tick
  \/ \E k \in DaySteps : AllIdle /\ lastRecurringCheck = today /\ AdvanceDay(k)

SpecOwnership == InitOwnership /\ [][NextOwnership]_vars

\* ----------------------------------------------------------------- claim C19
\* the templates as stored when the call began
TemplatesReadByCall(t) ==
  IF tasks[t].preRecurring.st = "ok" THEN tasks[t].preRecurring.v ELSE <<>>

\* a run adds and removes no template, and changes no entry the collection
\* had: it appends
EngineAppends(t) ==
  /\ Len(StoredTemplates) = Len(TemplatesReadByCall(t))
  /\ Len(StoredEntries) >= Len(ReadByCall(t))
  /\ \A j \in 1..Len(ReadByCall(t)) : StoredEntries[j] = ReadByCall(t)[j]

\* C19 as stated: a run changes no field of a template but
\* last_generated_date, adds and removes no template, and changes and
\* removes no entry the collection had.
C19_OnlyLastGenerated ==
  \A t \in TaskIds :
    RunOf(t) =>
      /\ EngineAppends(t)
      /\ \A i \in 1..Len(StoredTemplates) :
           [StoredTemplates[i] EXCEPT !.last_generated_date =
               TemplatesReadByCall(t)[i].last_generated_date]
             = TemplatesReadByCall(t)[i]

\* C19 amended: a run changes no field of a template but last_generated_date
\* and the audit instant updated_at, which updateRecurringEntry sets to the
\* clock; id, amount, category, currency, note, frequency, start_date,
\* end_date, is_active and created_at stay, no template is added or removed,
\* and no entry the collection had is changed or removed.
C19_EngineOwnership ==
  \A t \in TaskIds :
    RunOf(t) =>
      /\ EngineAppends(t)
      /\ \A i \in 1..Len(StoredTemplates) :
           [StoredTemplates[i] EXCEPT
              !.last_generated_date = TemplatesReadByCall(t)[i].last_generated_date,
              !.updated_at = TemplatesReadByCall(t)[i].updated_at]
             = TemplatesReadByCall(t)[i]

\* a run, later than the template was saved and over a ledger with an
\* entry, has added two entries
C19_Witness ==
  \E t \in TaskIds :
    /\ GenDone(t) /\ tasks[t].result[2] >= 2
    /\ Len(ReadByCall(t)) >= 1
    /\ Len(StoredTemplates) = 1
    /\ StoredTemplates[1].updated_at > StoredTemplates[1].created_at
    /\ StoredTemplates[1].last_generated_date #
         TemplatesReadByCall(t)[1].last_generated_date

\* ------------------------------------------------------ calculateSpendingStats
\* A Record<string, number> is the sequence of its own properties,
\* [key, total], in the order in which they were first assigned.

\* Names every object literal inherits from Object.prototype: reading one
\* from a record with no own property of that name gives the inherited
\* function, not undefined.
InheritedKeys == {"constructor", "toString", "valueOf", "hasOwnProperty"}

\* a value that is not a number: an inherited function, or the text that
\* adding a number to it (or to such a text) gives
NonNumber == 0 - 2

\* the index of the own property key of rec, 0 when there is none
OwnIndex(rec, key) ==
  LET hits == {i \in 1..Len(rec) : rec[i].key = key}
  IN IF hits = {} THEN 0 ELSE CHOOSE i \in hits : TRUE

\* rec[key] || 0, where inherited says that key is an inherited name
GetOrZero(rec, key, inherited) ==
  IF OwnIndex(rec, key) # 0 THEN rec[OwnIndex(rec, key)].total
  ELSE IF inherited THEN NonNumber
       ELSE 0

\* x + amount
Plus(x, amount) == IF x = NonNumber THEN NonNumber ELSE x + amount

\* rec[key] = (rec[key] || 0) + amount
AddTo(rec, key, amount, inherited) ==
  LET v == Plus(GetOrZero(rec, key, inherited), amount)
  IN IF OwnIndex(rec, key) # 0
     THEN [rec EXCEPT ![OwnIndex(rec, key)].total = v]
     ELSE Append(rec, [key |-> key, total |-> v])

\* the for loop: totalSpend, dayTotals and categoryTotals after the entries
RECURSIVE StatsLoop(_, _)
StatsLoop(entries, acc) ==
  IF entries = <<>> THEN acc
  ELSE LET entry == Head(entries)
           cat == OrUncategorized(entry.category)
       IN StatsLoop(Tail(entries),
            [totalSpend |-> acc.totalSpend + entry.amount,
             dayTotals |-> AddTo(acc.dayTotals, entry.date, entry.amount, FALSE),
             categoryTotals |-> AddTo(acc.categoryTotals, cat, entry.amount,
                                      cat \in InheritedKeys)])

\* (variant: a row put before the rows it ties with)
RECURSIVE InsertByTotalStrict(_, _)
InsertByTotalStrict(sorted, x) ==
  IF sorted = <<>> THEN <<x>>
  ELSE IF Head(sorted).total > x.total
       THEN <<Head(sorted)>> \o InsertByTotalStrict(Tail(sorted), x)
       ELSE <<x>> \o sorted

\* sort((a, b) => b.total - a.total): the sort is stable
RECURSIVE InsertByTotal(_, _)
InsertByTotal(sorted, x) ==
  IF sorted = <<>> THEN <<x>>
  ELSE IF Head(sorted).total >= x.total
       THEN <<Head(sorted)>> \o InsertByTotal(Tail(sorted), x)
       ELSE <<x>> \o sorted

RECURSIVE SortByTotalDesc(_)
SortByTotalDesc(s) ==
  IF s = <<>> THEN <<>>
  ELSE InsertByTotal(SortByTotalDesc(SubSeq(s, 1, Len(s) - 1)), s[Len(s)])

\* The orders the sort can leave: b.total - a.total is NaN when a total is
\* not a number, the comparator is then inconsistent and the order is the
\* implementation's choice.
SortOutcomes(s) ==
  IF \E i \in 1..Len(s) : s[i].total = NonNumber
  THEN {[i \in 1..Len(s) |-> s[p[i]]] : p \in Permutations(1..Len(s))}
  ELSE {SortByTotalDesc(s)}

\* totalSpend / spendDays is the double nearest to the quotient; a double
\* that is a quotient of two integers is kept as the two integers.
Divide(t, d) == [num |-> t, den |-> d]
Zero == Divide(0, 1)

\* a double has 52 mantissa bits after the leading one
MantissaBits == 52

RECURSIVE Pow2(_)
Pow2(k) == IF k = 0 THEN 1 ELSE 2 * Pow2(k - 1)

\* 2^s modulo m
RECURSIVE Pow2Mod(_, _)
Pow2Mod(s, m) == IF s = 0 THEN 1 % m ELSE (2 * Pow2Mod(s - 1, m)) % m

\* the binary exponent of t / d: the largest E with 2^E <= t / d
RECURSIVE ExponentUp(_, _)
ExponentUp(t, d) == IF 2 * d <= t THEN 1 + ExponentUp(t, 2 * d) ELSE 0

RECURSIVE ExponentDown(_, _)
ExponentDown(t, d) == IF t >= d THEN 0 ELSE ExponentDown(2 * t, d) - 1

Exponent(t, d) == IF t >= d THEN ExponentUp(t, d) ELSE ExponentDown(t, d)

\* Whether (t / d) * d is t in double arithmetic, for integers t, d > 0.
\* With s = 52 - Exponent(t, d) the quotient is rounded to M / 2^s, M the
\* integer nearest to t * 2^s / d (ties to even); the exact product is then
\* t + delta / 2^s with delta = M * d - t * 2^s, and it rounds back to t
\* when it is within half the distance from t to the next double.
DivRoundTrips(t, d) ==
  LET s == MantissaBits - Exponent(t, d)
      n2 == (t * Pow2Mod(s, 2 * d)) % (2 * d)
      r == n2 % d
      odd == n2 \div d = 1
      delta == IF 2 * r < d THEN 0 - r
               ELSE IF 2 * r > d THEN d - r
               ELSE IF odd THEN d - r ELSE 0 - r
      k == Exponent(t, 1) - Exponent(t, d)
      powerOfTwo == t = Pow2(Exponent(t, 1))
  IN IF delta >= 0 THEN 2 * delta <= Pow2(k)
     ELSE IF powerOfTwo THEN 4 * (0 - delta) <= Pow2(k)
          ELSE 2 * (0 - delta) <= Pow2(k)

\* q * n = total in double arithmetic, q the double Divide(total, n)
MultipliesBack(q, n, total) ==
  IF q.num = 0 THEN total = 0
  ELSE q.num = total /\ q.den = n /\ DivRoundTrips(total, n)

\* Object.entries(...).map(([category, total]) => ({ category, total }))
RECURSIVE CategoryRows(_)
CategoryRows(rec) ==
  IF rec = <<>> THEN <<>>
  ELSE <<[category |-> Head(rec).key, total |-> Head(rec).total]>>
         \o CategoryRows(Tail(rec))

\* Object.entries(dayTotals).map(([date, amount]) => ({ date, amount }))
DayRow(x) == [date |-> x.key, amount |-> x.total]

\* the result for no entries
EmptyStats(totalDaysInPeriod) ==
  [totalSpend |-> 0, totalEntries |-> 0, spendDays |-> 0,
   averageSpendPerSpendDay |-> Zero, topCategories |-> <<>>,
   highestSpendDay |-> <<>>, lowestSpendDay |-> <<>>,
   totalDaysInPeriod |-> totalDaysInPeriod]

\* calculateSpendingStats(entries, totalDaysInPeriod): the results it can
\* give (a null day is <<>>, a day d is <<d>>)
CalculateSpendingStats(entries, totalDaysInPeriod) ==
  IF Len(entries) = 0 THEN {EmptyStats(totalDaysInPeriod)}
  ELSE LET acc == StatsLoop(entries, [totalSpend |-> 0, dayTotals |-> <<>>,
                                      categoryTotals |-> <<>>])
           spendDays == Len(acc.dayTotals)
           dayAmounts == SortByTotalDesc(acc.dayTotals)
       IN {[totalSpend |-> acc.totalSpend,
            totalEntries |-> Len(entries),
            spendDays |-> spendDays,
            averageSpendPerSpendDay |->
              IF spendDays > 0 THEN Divide(acc.totalSpend, spendDays) ELSE Zero,
            topCategories |-> CategoryRows(sorted),
            highestSpendDay |->
              IF Len(dayAmounts) > 0 THEN <<DayRow(dayAmounts[1])>> ELSE <<>>,
            lowestSpendDay |->
              IF Len(dayAmounts) > 0 THEN <<DayRow(dayAmounts[Len(dayAmounts)])>>
              ELSE <<>>,
            totalDaysInPeriod |-> totalDaysInPeriod] :
           sorted \in SortOutcomes(acc.categoryTotals)}

\* ------------------------------------------------------------ the statistics
\* The summary screens hand calculateSpendingStats the entries of a period.
MaxStatLen == 3

StatEntry(id, date, amount, category) ==
  [NewSpendEntry([date |-> date, amount |-> amount, category |-> category,
                  note |-> NullNote, currency |-> "USD"], id, 0)
     EXCEPT !.category = category]

StatMenu ==
  <<StatEntry(1, 0, 5, "Food"),
    StatEntry(2, 0, 3, NullStr),
    StatEntry(3, 1, 8, "Food"),
    StatEntry(4, 1, 3, "Uncategorized"),
    StatEntry(5, 2, 2, "constructor"),
    StatEntry(6, 2, 8, "Travel")>>

\* a week with an entry on each day, 29 in all
WeekList ==
  <<StatEntry(1, 0, 5, "Food"), StatEntry(2, 1, 4, "Food"),
    StatEntry(3, 2, 4, "Travel"), StatEntry(4, 3, 4, "Food"),
    StatEntry(5, 4, 4, "Travel"), StatEntry(6, 5, 4, "Food"),
    StatEntry(7, 6, 4, "Food")>>

\* the lists of at most MaxStatLen different entries of the menu
StatPicks ==
  {p \in UNION {[1..n -> 1..Len(StatMenu)] : n \in 0..MaxStatLen} :
     \A i, j \in 1..Len(p) : i # j => p[i] # p[j]}

RECURSIVE PickedFrom(_, _)
PickedFrom(p, i) ==
  IF i > Len(p) THEN <<>> ELSE <<StatMenu[p[i]]>> \o PickedFrom(p, i + 1)

StatLists == {PickedFrom(p, 1) : p \in StatPicks} \cup {WeekList}

StatPeriods == {7, 30}

StartStats(t, list, n) ==
  /\ FreeSlot(t)
  /\ \E s \in CalculateSpendingStats(list, n) :
       SetTask(t, Resolve(Begin([IdleTask EXCEPT !.op = "calculateSpendingStats",
                                                 !.entries = list]),
                          <<"stats", list, s>>))
  /\ UNCHANGED <<storage, clock, uuid, history>>

InitStats ==
  /\ FreshStore
  /\ dailyLogs = Absent
  /\ today = 0
  /\ now = 0

NextStats ==
  \/ \E t \in TaskIds, list \in StatLists, n \in StatPeriods :
       AllIdle /\ StartStats(t, list, n)
  \/ \E t \in TaskIds : Return(t)

SpecStats == InitStats /\ [][NextStats]_vars

\* ----------------------------------------------------------------- claim C20
StatsAsked(t) == Asked(t, "calculateSpendingStats")

\* the sum of the amounts of the entries of the list at the indices in I
RECURSIVE IndexSum(_, _)
IndexSum(list, I) ==
  IF I = {} THEN 0
  ELSE LET i == CHOOSE x \in I : TRUE IN list[i].amount + IndexSum(list, I \ {i})

RECURSIVE SumOfTotals(_)
SumOfTotals(rows) ==
  IF rows = <<>> THEN 0 ELSE Head(rows).total + SumOfTotals(Tail(rows))

DatesOf(list) == {list[i].date : i \in 1..Len(list)}
OnDate(list, d) == {i \in 1..Len(list) : list[i].date = d}

RECURSIVE SumOfDayTotals(_, _)
SumOfDayTotals(list, dates) ==
  IF dates = {} THEN 0
  ELSE LET d == CHOOSE x \in dates : TRUE
       IN IndexSum(list, OnDate(list, d)) + SumOfDayTotals(list, dates \ {d})

\* the category an entry is counted under
CountedUnder(e) == IF e.category = NullStr THEN "Uncategorized" ELSE e.category
InCategory(list, c) == {i \in 1..Len(list) : CountedUnder(list[i]) = c}

\* totalSpend is the sum of the amounts, of the category totals and of the
\* per-day totals, each entry counted in one category
StatSums(list, s) ==
  /\ s.totalSpend = IndexSum(list, 1..Len(list))
  /\ \A i \in 1..Len(s.topCategories) : s.topCategories[i].total # NonNumber
  /\ SumOfTotals(s.topCategories) = s.totalSpend
  /\ SumOfDayTotals(list, DatesOf(list)) = s.totalSpend
  /\ \A i \in 1..Len(list) :
       Cardinality({j \in 1..Len(s.topCategories) :
                      s.topCategories[j].category = CountedUnder(list[i])}) = 1
  /\ \A j \in 1..Len(s.topCategories) :
       s.topCategories[j].total =
         IndexSum(list, InCategory(list, s.topCategories[j].category))

StatDays(list, s) == s.spendDays = Cardinality(DatesOf(list))

StatAverage(list, s) ==
  MultipliesBack(s.averageSpendPerSpendDay, s.spendDays, s.totalSpend)

StatOrder(list, s) ==
  \A i, j \in 1..Len(s.topCategories) :
    i < j => s.topCategories[i].total >= s.topCategories[j].total

StatEmpty(list, s) ==
  list = <<>> =>
    /\ s.totalSpend = 0 /\ s.totalEntries = 0 /\ s.spendDays = 0
    /\ s.averageSpendPerSpendDay = Zero
    /\ s.topCategories = <<>>
    /\ s.highestSpendDay = <<>> /\ s.lowestSpendDay = <<>>

\* C20: for every list of entries, calculateSpendingStats gives totalSpend =
\* the sum of all amounts = the sum of the topCategories totals = the sum of
\* the per-day totals (each entry counted in one day and one category, a
\* null category under 'Uncategorized'); spendDays = the number of distinct
\* dates; averageSpendPerSpendDay * spendDays = totalSpend; topCategories in
\* non-increasing order of total; and for the empty list every total 0,
\* topCategories empty and both extremal days null.
C20_Stats ==
  \A t \in TaskIds :
    StatsAsked(t) =>
      LET list == tasks[t].result[2]
          s == tasks[t].result[3]
      IN /\ StatSums(list, s)
         /\ StatDays(list, s)
         /\ StatAverage(list, s)
         /\ StatOrder(list, s)
         /\ StatEmpty(list, s)

\* the lists whose categories are not names inherited from Object.prototype
PlainList(list) ==
  \A i \in 1..Len(list) : CountedUnder(list[i]) \notin InheritedKeys

\* For such lists the sums, the day count, the order and the empty case are
\* as C20 says.
C20_PlainLists ==
  \A t \in TaskIds :
    StatsAsked(t) /\ PlainList(tasks[t].result[2]) =>
      LET list == tasks[t].result[2]
          s == tasks[t].result[3]
      IN /\ StatSums(list, s)
         /\ StatDays(list, s)
         /\ StatOrder(list, s)
         /\ StatEmpty(list, s)

\* The average multiplies back to the total over one, two or four days.
C20_AverageOverFewDays ==
  \A t \in TaskIds :
    StatsAsked(t) /\ tasks[t].result[3].spendDays \in {0, 1, 2, 4} =>
      StatAverage(tasks[t].result[2], tasks[t].result[3])

\* A category named like an inherited property has a total that is no number.
C20_InheritedName ==
  \A t \in TaskIds :
    StatsAsked(t) =>
      \A i \in 1..Len(tasks[t].result[3].topCategories) :
        tasks[t].result[3].topCategories[i].total # NonNumber

\* The average of 29 over seven days, times seven, is not 29.
C20_WeekAverage ==
  \A t \in TaskIds :
    StatsAsked(t) /\ tasks[t].result[2] = WeekList =>
      StatAverage(tasks[t].result[2], tasks[t].result[3])

\* ----------------------------------------------------------------- claim C21
DayTotal(list, d) == IndexSum(list, OnDate(list, d))

\* the place at which the day, or the category, is first met in the list
FirstMet(I) == CHOOSE i \in I : \A j \in I : i <= j
DayFirstMet(list, d) == FirstMet(OnDate(list, d))
CategoryFirstMet(list, c) ==
  FirstMet({i \in 1..Len(list) : OrUncategorized(list[i].category) = c})

MaxDays(list) ==
  {d \in DatesOf(list) : \A e \in DatesOf(list) : DayTotal(list, e) <= DayTotal(list, d)}
MinDays(list) ==
  {d \in DatesOf(list) : \A e \in DatesOf(list) : DayTotal(list, d) <= DayTotal(list, e)}

\* of the days in D, the one met first, and the one met last
FirstOfDays(list, D) ==
  CHOOSE d \in D : \A e \in D : DayFirstMet(list, d) <= DayFirstMet(list, e)
LastOfDays(list, D) ==
  CHOOSE d \in D : \A e \in D : DayFirstMet(list, e) <= DayFirstMet(list, d)

HighestIsFirstMax(list, s) ==
  /\ Len(s.highestSpendDay) = 1
  /\ s.highestSpendDay[1].date = FirstOfDays(list, MaxDays(list))
  /\ s.highestSpendDay[1].amount = DayTotal(list, s.highestSpendDay[1].date)

LowestIsMin(list, s) ==
  /\ Len(s.lowestSpendDay) = 1
  /\ s.lowestSpendDay[1].date \in MinDays(list)
  /\ s.lowestSpendDay[1].amount = DayTotal(list, s.lowestSpendDay[1].date)

AllNumbers(s) ==
  \A i \in 1..Len(s.topCategories) : s.topCategories[i].total # NonNumber

TiedCategoriesInOrder(list, s) ==
  \A i, j \in 1..Len(s.topCategories) :
    i < j /\ s.topCategories[i].total = s.topCategories[j].total =>
      CategoryFirstMet(list, s.topCategories[i].category)
        < CategoryFirstMet(list, s.topCategories[j].category)

C21_TiesWithNumbersOnly ==
  \A t \in TaskIds :
    StatsAsked(t) /\ tasks[t].result[2] # <<>> =>
      TiedCategoriesInOrder(tasks[t].result[2], tasks[t].result[3])

\* ------------------------------------------- settings and subscription updates
\* what the settings screen, onboarding and the paywall pass
SettingsUpdates ==
  { [keys |-> {"default_currency"},
     vals |-> [GetDefaultSettings(0) EXCEPT !.default_currency = "EUR"]],
    [keys |-> {"tone", "notifications_enabled"},
     vals |-> [GetDefaultSettings(0) EXCEPT !.tone = "direct",
                                            !.notifications_enabled = TRUE]],
    [keys |-> {"onboarding_completed"},
     vals |-> [GetDefaultSettings(0) EXCEPT !.onboarding_completed = TRUE]] }

SubscriptionUpdates ==
  PurchasePartials \cup
  { [keys |-> {"is_active"},
     vals |-> [GetDefaultSubscription(0) EXCEPT !.is_active = FALSE]],
    [keys |-> {"source"},
     vals |-> [GetDefaultSubscription(0) EXCEPT !.source = "google"]] }

InitSettings ==
  /\ FreshStore
  /\ dailyLogs = Absent
  /\ today = 0
  /\ now = 0

NextSettings ==
  \/ \E t \in TaskIds, p \in SettingsUpdates : AllIdle /\ StartUpdateAppSettings(t, p)
  \/ \E t \in TaskIds, p \in SubscriptionUpdates :
       AllIdle /\ StartUpdateSubscription(t, p)
  \/ \E t \in TaskIds : StepStoreOk(t)
  \/ \E t \in TaskIds : StepStoreFail(t)
  \/ \E t \in TaskIds : Return(t)
  \/ AllIdle /\ Tick

SpecSettings == InitSettings /\ [][NextSettings]_vars

\* ----------------------------------------------------------------- claim C22
\* the call t, an update of the kind op, resolves in this step
UpdateResolves(t, op) ==
  /\ tasks[t].op = op
  /\ Running(t)
  /\ tasks'[t].status = "resolved"

\* the record new has the fields of the partial as given, and every other
\* field of the record persisted before, updated_at apart, as it was
MergedOver(old, new, partial) ==
  /\ new.st = "ok"
  /\ \A k \in partial.keys : new.v.vals[k] = partial.vals[k]
  /\ old.st = "ok" =>
       \A k \in old.v.keys \ (partial.keys \cup {"updated_at"}) :
         new.v.vals[k] = old.v.vals[k]

\* C22: after updateAppSettings(partial) or updateSubscription(partial)
\* resolves, every field named in partial has the given value and every
\* other field, updated_at apart, has the value it had in the record
\* persisted before the call, for any sequence of updates and also when the
\* read of the current record inside the update fails.
C22_Merge ==
  [][\A t \in TaskIds :
       /\ UpdateResolves(t, "updateAppSettings") =>
            MergedOver(appSettings, appSettings', tasks[t].updates)
       /\ UpdateResolves(t, "updateSubscription") =>
            MergedOver(subscription, subscription', tasks[t].updates)]_vars

\* The same holds of the updates whose read did not fail.
C22_MergeAfterRead ==
  [][\A t \in TaskIds :
       tasks[t].faults = {} =>
         /\ UpdateResolves(t, "updateAppSettings") =>
              MergedOver(appSettings, appSettings', tasks[t].updates)
         /\ UpdateResolves(t, "updateSubscription") =>
              MergedOver(subscription, subscription', tasks[t].updates)]_vars

\* ------------------------------------------------------- period advancement
\* The occurrences of a schedule as the engine's while loop walks them:
\* nextDate = getNextOccurrenceDate(nextDate, frequency), from a start date.
MaxPeriodDay == 460

Frequencies == {"weekly", "biweekly", "monthly"}

StartOccurrences(t, startDate, frequency) ==
  /\ FreeSlot(t)
  /\ SetTask(t, Begin([IdleTask EXCEPT !.op = "occurrences", !.pc = "next",
                                       !.date = startDate, !.nextDate = startDate,
                                       !.frequency = frequency]))
  /\ UNCHANGED <<storage, clock, uuid, history>>

\* one more occurrence: date2 is the date it was computed from
NextOccurrence(t) ==
  /\ Running(t) /\ tasks[t].pc = "next"
  /\ LET n == GetNextOccurrenceDate(tasks[t].nextDate, tasks[t].frequency) IN
     SetTask(t, IF n > MaxPeriodDay
                THEN Resolve(tasks[t], <<"occurrences", tasks[t].generated>>)
                ELSE [tasks[t] EXCEPT !.date2 = tasks[t].nextDate, !.nextDate = n,
                                      !.generated = tasks[t].generated + 1])
  /\ UNCHANGED <<storage, clock, uuid, history>>

InitPeriods ==
  /\ FreshStore
  /\ dailyLogs = Absent
  /\ today = 0
  /\ now = 0

NextPeriods ==
  \/ \E t \in TaskIds, d \in 0..MaxPeriodDay, f \in Frequencies :
       AllIdle /\ StartOccurrences(t, d, f)
  \/ \E t \in TaskIds : NextOccurrence(t)
  \/ \E t \in TaskIds : Return(t)

SpecPeriods == InitPeriods /\ [][NextPeriods]_vars

\* ----------------------------------------------------------------- claim C23
\* the call has computed an occurrence, nextDate, from the date date2
Advanced(t) ==
  tasks[t].op = "occurrences" /\ Running(t) /\ tasks[t].generated > 0

\* the month after (year, month)
MonthAfter(y, m) ==
  IF m = 12 THEN [year |-> y + 1, month |-> 1] ELSE [year |-> y, month |-> m + 1]

MonthlyAdvance(from, to) ==
  LET p == ParseDate(from)
      n == ParseDate(to)
      m1 == MonthAfter(p.year, p.month)
      m2 == MonthAfter(m1.year, m1.month)
  IN IF p.day <= DaysInMonth(m1.year, m1.month)
     THEN n = [year |-> m1.year, month |-> m1.month, day |-> p.day]
     ELSE /\ p.day \in 29..31
          /\ n = [year |-> m2.year, month |-> m2.month,
                  day |-> p.day - DaysInMonth(m1.year, m1.month)]

\* C23: getNextOccurrenceDate returns a date strictly later than its input:
\* 7 days later for weekly, 14 days later for biweekly, and for monthly the
\* same day of the month in the next month when that month has the day;
\* when it has not (day 29 to 31) the result rolls over into the month
\* after, and every later monthly occurrence keeps the rolled-over day of
\* the month and does not return to the day of the start date.
C23_PeriodAdvance ==
  \A t \in TaskIds :
    Advanced(t) =>
      LET from == tasks[t].date2
          to == tasks[t].nextDate
          f == tasks[t].frequency
      IN /\ to > from
         /\ f = "weekly" => to = from + 7
         /\ f = "biweekly" => to = from + 14
         /\ f = "monthly" =>
              /\ MonthlyAdvance(from, to)
              /\ ParseDate(from).day # ParseDate(tasks[t].date).day =>
                   /\ ParseDate(to).day = ParseDate(from).day
                   /\ ParseDate(to).day # ParseDate(tasks[t].date).day

\* a monthly schedule from the 31st that rolled over and went on
C23_Witness ==
  \E t \in TaskIds :
    /\ Advanced(t)
    /\ tasks[t].frequency = "monthly"
    /\ ParseDate(tasks[t].date).day = 31
    /\ tasks[t].generated >= 3
    /\ ParseDate(tasks[t].nextDate).day \in 1..3
    /\ ParseDate(tasks[t].nextDate).year = 2025

\* ----------------------------------------------------------------- claim C24
\* C24: when two generateRecurringEntriesForToday calls started on the same
\* day interleave at their storage suspension points, generation still
\* happens at most once for the day: no occurrence of any template is
\* materialized as two SpendEntries.
C24_OncePerOccurrence ==
  \A g, h \in generatedLog :
    g.id = h.id /\ g.date = h.date /\ InStore(g.entry_id) /\ InStore(h.entry_id) =>
      g.entry_id = h.entry_id

\* ------------------------------------------------------ entitlement and lapse
\* handleSubscribe: the plan chosen on the paywall, bought at the instant at
Purchase(plan, at) ==
  [keys |-> {"plan", "is_active", "expires_at", "source"},
   vals |-> [GetDefaultSubscription(0) EXCEPT
               !.plan = plan, !.is_active = TRUE,
               !.expires_at = IF plan = "lifetime" THEN NullInstant ELSE at + 1,
               !.source = "apple"]]

\* the free-history window the settings hold
LapseWindows == {0, 1}

\* the last day of the ledger's dates: the day of the run
InitLapse ==
  /\ dailyLogs \in QueryStores
  /\ MigratedStore
  /\ today = 3
  /\ now = 0

\* the paywall, and the overview: getSubscription, getEntriesForDateRange
\* and canViewDate(date, subscription, settings.free_history_days)
NextLapse ==
  \/ \E t \in TaskIds, plan \in Plans \ {"free"} :
       AllIdle /\ StartUpdateSubscription(t, Purchase(plan, now))
  \/ \E t \in TaskIds : AllIdle /\ StartGetSubscription(t, "isPremium")
  \/ \E t \in TaskIds, d \in QueryDates, n \in LapseWindows :
       AllIdle /\ StartCanViewDate(t, d, ReadSubscription(FALSE), n)
  \/ \E t \in TaskIds, a \in QueryDates, b \in QueryDates :
       AllIdle /\ StartRead(t, "getEntriesForDateRange", a, b)
  \/ \E t \in TaskIds : MigGetMarker(t, FALSE)
  \/ \E t \in TaskIds : GetAllEntries(t, FALSE)
  \/ \E t \in TaskIds : StepSubscriptionOk(t)
  \/ \E t \in TaskIds : Return(t)
  \/ AllIdle /\ Tick

SpecLapse == InitLapse /\ [][NextLapse]_vars

\* ----------------------------------------------------------------- claim C25
\* a bought plan that ends
Ends(sub) == sub.plan \in {"monthly", "yearly"} /\ sub.is_active

\* isPremium of an ending plan is true before expires_at and false from it
\* on; of a lifetime plan it is true
LapseOfPremium ==
  \A t \in TaskIds :
    PremiumAsked(t) =>
      LET sub == tasks[t].result[2]
          at == tasks[t].result[4]
      IN /\ Ends(sub) => (tasks[t].result[3] <=> at < sub.expires_at)
         /\ sub.plan = "lifetime" => tasks[t].result[3]

\* from expires_at on the dates older than the window are not viewable;
\* with a premium subscription every date is
LapseOfViews ==
  \A t \in TaskIds :
    ViewAsked(t) =>
      LET date == tasks[t].result[2]
          sub == tasks[t].result[3]
          n == tasks[t].result[4]
          td == tasks[t].result[5]
          at == tasks[t].result[6]
      IN /\ Ends(sub) /\ at >= sub.expires_at /\ td - date > n => ~tasks[t].result[7]
         /\ Ends(sub) /\ at < sub.expires_at => tasks[t].result[7]
         /\ sub.plan = "lifetime" => tasks[t].result[7]

\* getEntriesForDateRange returns the stored entries of the range, whatever
\* the subscription
LapseOfQueries ==
  \A t \in TaskIds :
    Asked(t, "getEntriesForDateRange") =>
      \A j \in 1..Len(StoredEntries) :
        TimesIn(tasks[t].result[2], j) =
          IF tasks[t].date <= StoredEntries[j].date
             /\ StoredEntries[j].date <= tasks[t].date2
          THEN 1 ELSE 0

\* no step after the migration changes the persisted entries, and the
\* passing of time changes nothing persisted
LapseKeepsEntries ==
  /\ spendEntries.st = "ok" => spendEntries' = spendEntries
  /\ now' # now => storage' = storage

\* C25: for a monthly or yearly subscription with expiresAt = t, isPremium
\* is true at every instant before t and false from t onward without any
\* write; from t onward dates older than the free-history window are no
\* longer viewable via canViewDate, yet the persisted entries of those dates
\* are unchanged and still returned by getEntriesForDateRange, and they are
\* viewable again as soon as the subscription is premium again.  A lifetime
\* plan never lapses.
C25_Lapse ==
  /\ [](LapseOfPremium /\ LapseOfViews /\ LapseOfQueries)
  /\ [][LapseKeepsEntries]_vars

\* the plan has ended, a date older than the window is refused, and the
\* entries of that date are stored
C25_Witness ==
  \E t \in TaskIds :
    /\ ViewAsked(t)
    /\ Ends(tasks[t].result[3])
    /\ tasks[t].result[6] >= tasks[t].result[3].expires_at
    /\ ~tasks[t].result[7]
    /\ \E j \in 1..Len(StoredEntries) : StoredEntries[j].date = tasks[t].result[2]

\* after the end of a plan a new purchase makes an old date viewable again
C25_ViewableAgain ==
  \E t \in TaskIds :
    /\ ViewAsked(t)
    /\ Ends(tasks[t].result[3])
    /\ tasks[t].result[3].expires_at = MaxNow + 1
    /\ tasks[t].result[7]
    /\ tasks[t].result[5] - tasks[t].result[2] > tasks[t].result[4]

\* ----------------------------------------------------------------- claim C26
\* the entries persisted when the call began
EntriesBefore(t) ==
  IF tasks[t].preEntries.st = "ok" THEN tasks[t].preEntries.v ELSE <<>>

\* the collection the new entry is added to: the one persisted before, or
\* the converted legacy log when this call's migration wrote it
BaseOfAdd(t) ==
  IF tasks[t].migWrote THEN ConvertLegacy(dailyLogs.v) ELSE EntriesBefore(t)

\* C26: whenever addSpendEntry resolves, every entry that was persisted
\* before the call is still persisted and unchanged, and the collection has
\* grown by exactly the returned entry, also when the read of the entry
\* collection inside the call fails or returns unparsable data.
C26_AddKeepsEntries ==
  \A t \in TaskIds :
    tasks[t].op = "add" /\ tasks[t].status = "resolved" =>
      /\ spendEntries.st = "ok"
      /\ \A i \in 1..Len(EntriesBefore(t)) :
           \E j \in 1..Len(StoredEntries) : StoredEntries[j] = EntriesBefore(t)[i]
      /\ Len(StoredEntries) = Len(BaseOfAdd(t)) + 1
      /\ \E j \in 1..Len(StoredEntries) : StoredEntries[j] = tasks[t].result[2]

\* The same holds of the calls in which no storage call failed.
C26_AddWithoutFailure ==
  \A t \in TaskIds :
    tasks[t].op = "add" /\ tasks[t].status = "resolved" /\ tasks[t].faults = {} =>
      /\ spendEntries.st = "ok"
      /\ \A i \in 1..Len(EntriesBefore(t)) :
           \E j \in 1..Len(StoredEntries) : StoredEntries[j] = EntriesBefore(t)[i]
      /\ Len(StoredEntries) = Len(BaseOfAdd(t)) + 1
      /\ \E j \in 1..Len(StoredEntries) : StoredEntries[j] = tasks[t].result[2]

\* ------------------------------------------- the first calls of a new version
\* The day screen's load and a save of the entry form on a device that holds
\* the legacy log: calls that do not wait for one another.
\* two calls at most are in flight
RoomForCall == Cardinality({u \in TaskIds : ~Idle(u)}) < 2

NextFirstCalls ==
  \/ \E t \in TaskIds, in \in AddInputs :
       /\ RoomForCall
       /\ uuid < MaxIds
       /\ StartAddSpendEntry(t, in.date, in.amount, in.category, in.note, in.currency)
  \/ \E t \in TaskIds, d \in 0..1 :
       RoomForCall /\ StartRead(t, "getDayData", d, NullDate)
  \/ \E t \in TaskIds : StepOk(t)
  \/ \E t \in TaskIds : Return(t)

SpecFirstCalls == InitLedger /\ [][NextFirstCalls]_vars

\* ----------------------------------------------------------------- claim C27
\* C27: in no interleaving of two store operations that both trigger the
\* lazy migration (each checks the marker before the other has set it) does
\* the migration's write of the converted legacy entries overwrite an entry
\* that another operation has already added to the collection.
C27_NoClobber ==
  [][\A t \in TaskIds :
       tasks[t].pc = "mig_setEntries" /\ tasks'[t].pc # "mig_setEntries" =>
         \A i \in 1..Len(StoredEntries) :
           StoredEntries[i].entry_id \notin LegacyIds =>
             \E j \in 1..Len(spendEntries'.v) : spendEntries'.v[j] = StoredEntries[i]]_vars

\* ----------------------------------------------------------------- claim C28
\* the template ended before the day
EndedBefore(r, day) == r.end_date # NullDate /\ r.end_date < day

\* the occurrences of the template that the engine has materialized
GeneratedOf(id) == {g \in generatedLog : g.id = id}

\* a run adds nothing for a template it read as ended
EndedGetNothing ==
  \A t \in TaskIds :
    RunOf(t) =>
      \A i \in 1..Len(tasks[t].recurring) :
        EndedBefore(tasks[t].recurring[i], tasks[t].today) =>
          \A e \in AddedByRun(t) : TemplateIdOf(e) # tasks[t].recurring[i].id

\* no step materializes an occurrence of a stored template that has ended
EndedStayAsTheyAre ==
  \A i \in 1..Len(StoredTemplates) :
    EndedBefore(StoredTemplates[i], today) =>
      GeneratedOf(StoredTemplates[i].id)' = GeneratedOf(StoredTemplates[i].id)

\* C28: if a template's endDate is earlier than the day of the run,
\* generateRecurringEntriesForToday generates nothing for it, even when
\* occurrences dated <= endDate had not yet been materialized; those
\* occurrences are then never materialized by any later run.
C28_NoBackfill ==
  /\ []EndedGetNothing
  /\ [][EndedStayAsTheyAre]_vars

\* a completed run on a day after the end of an active template, one of
\* whose occurrences up to the end date has no entry
C28_Witness ==
  \E t \in TaskIds :
    /\ GenDone(t)
    /\ tasks[t].preCheck # tasks[t].today
    /\ \E i \in 1..Len(StoredTemplates) :
         LET r == StoredTemplates[i] IN
         /\ r.is_active
         /\ EndedBefore(r, tasks[t].today)
         /\ \E d \in SeqToSet(Occurrences(r, r.end_date)) :
              \A g \in GeneratedOf(r.id) : g.date # d

\* ---------------------------------------------------------------- claim C29

\* Templates are saved from the form, and paused ones are re-activated with
\* the play button, only once the run of the day has completed; pausing is
\* possible at any time.
NextLate ==
  \/ \E t \in TaskIds : AllIdle /\ StartGenerate(t)
  \/ \E t \in TaskIds, in \in TemplateInputs :
       /\ AllIdle /\ Len(StoredTemplates) < MaxTemplates
       /\ lastRecurringCheck = today
       /\ in.startDate >= today
       /\ StartAddRecurring(t, in)
  \/ \E t \in TaskIds, i \in 1..Len(StoredTemplates), u \in TemplateEdits :
       /\ AllIdle
       /\ StoredTemplates[i].is_active # u.vals.is_active
       /\ u.vals.is_active => lastRecurringCheck = today
       /\ StartUpdateRecurring(t, StoredTemplates[i].id, u)
  \/ \E t \in TaskIds : StepMigratedOk(t)
  \/ \E t \in TaskIds : StepRecurringOk(t)
  \/ \E t \in TaskIds : Return(t)
  \/ \E k \in DaySteps : AllIdle /\ lastRecurringCheck = today /\ AdvanceDay(k)

SpecLate == InitRecurring /\ [][NextLate]_vars

\* the entries of the ledger the engine added for occurrence day of template id
MaterializedOn(id, day) ==
  {j \in 1..Len(StoredEntries) :
     /\ StoredEntries[j].date = day
     /\ \E g \in generatedLog :
          g.id = id /\ g.date = day /\ g.entry_id = StoredEntries[j].entry_id}

\* while the day's marker is set and the day lasts, no step adds an entry
\* for any template: the engine's record and the ledger stay as they are
NothingOnTheDay ==
  (lastRecurringCheck = today /\ today' = today) =>
     /\ generatedLog' = generatedLog
     /\ spendEntries' = spendEntries

\* a completed run that passed the guard has materialized, once each, the
\* occurrences due on earlier days of every template that is active on the
\* day of the run
MaterializedLater ==
  \A t \in TaskIds :
    (GenDone(t) /\ tasks[t].preCheck # tasks[t].today) =>
      \A i \in 1..Len(StoredTemplates) :
        ~SkipsTemplate(StoredTemplates[i], tasks[t].today) =>
          \A d \in SeqToSet(Occurrences(StoredTemplates[i], tasks[t].today)) :
            d < tasks[t].today =>
              Cardinality(MaterializedOn(StoredTemplates[i].id, d)) = 1

\* C29: a template created or re-activated on day D after that day's run has
\* completed, with an occurrence due on D, gets no entry on day D; the
\* occurrence is materialized by the first completed run on a later day,
\* provided the template is active on that day.
C29_LateTemplate ==
  /\ []MaterializedLater
  /\ [][NothingOnTheDay]_vars

\* the entries a run has added for occurrence day of template id
AddedFor(t, id, day) ==
  {j \in MaterializedOn(id, day) :
     \A k \in 1..Len(EntriesBefore(t)) :
       EntriesBefore(t)[k].entry_id # StoredEntries[j].entry_id}

\* the first run after the day D of a late creation with start_date = D has
\* added the entry of D
C29_Witness ==
  \E t \in TaskIds, l \in lateTemplates :
    /\ GenDone(t)
    /\ tasks[t].preCheck = l.day /\ l.day < tasks[t].today
    /\ l.id \notin editedTemplates
    /\ \E i \in 1..Len(StoredTemplates) :
         /\ StoredTemplates[i].id = l.id
         /\ StoredTemplates[i].start_date = l.day
    /\ Cardinality(AddedFor(t, l.id, l.day)) = 1

\* the first run after the day D of a re-activation has added the entry of
\* D for a template that had entries before it was paused
C29_Reactivated ==
  \E t \in TaskIds, i \in 1..Len(StoredTemplates) :
    LET r == StoredTemplates[i] IN
    /\ GenDone(t)
    /\ tasks[t].preCheck # NullDate /\ tasks[t].preCheck < tasks[t].today
    /\ r.id \in editedTemplates
    /\ tasks[t].preCheck \in SeqToSet(Occurrences(r, tasks[t].today))
    /\ Cardinality(AddedFor(t, r.id, tasks[t].preCheck)) = 1
    /\ \E g \in generatedLog :
         g.id = r.id /\ g.date < tasks[t].preCheck /\ ~(AddedFor(t, r.id, g.date) # {})

\* ---------------------------------------------------------------- claim C30

\* identifiers handed out beyond which no further run is started
MaxIssued == 4

NoneRunning == \A t \in TaskIds : ~Running(t)

\* a storage write of the engine throws: the setItem of saveAllEntries, of
\* updateRecurringEntry or of the day's marker
StepWriteFail(t) ==
  /\ tasks[t].op = "gen"
  /\ \/ SaveAllEntries(t, TRUE)
     \/ UpdSetRecurring(t, TRUE)
     \/ GenSetCheck(t, TRUE)

\* One call of the engine at a time, each of its writes may throw; a call
\* that rejected is followed by further calls, on the same day or a later
\* one, while its outcome is still held.
NextRetry ==
  \/ \E t \in TaskIds :
       /\ NoneRunning /\ RoomForCall /\ uuid < MaxIssued
       /\ StartGenerate(t)
  \/ \E t \in TaskIds : StepMigratedOk(t)
  \/ \E t \in TaskIds : StepEngineOk(t)
  \/ \E t \in TaskIds : StepWriteFail(t)
  \/ \E t \in TaskIds : Return(t)
  \/ \E k \in DaySteps : NoneRunning /\ AdvanceDay(k)

SpecRetry == InitConcurrent /\ [][NextRetry]_vars

GenRejected(u) == tasks[u].op = "gen" /\ tasks[u].status = "rejected"

\* call t is a completed retry of the rejected call u of the same day, and
\* nothing has happened since it completed
RetryOf(t, u) ==
  /\ GenRejected(u)
  /\ GenDone(t) /\ tasks[t].preCheck # tasks[t].today
  /\ tasks[t].today = tasks[u].today
  /\ tasks[t].today = today /\ NoneRunning

\* a step by which a run rejects leaves the marker as it is, and not the day
MarkerLeftUnset ==
  \A u \in TaskIds :
    (~GenRejected(u) /\ GenRejected(u)') =>
      /\ lastRecurringCheck' = lastRecurringCheck
      /\ lastRecurringCheck' # tasks'[u].today

\* after the retry every occurrence of every active template up to the day
\* exists as exactly one entry
OneEntryAfterRetry ==
  \A t, u \in TaskIds :
    RetryOf(t, u) =>
      \A i \in 1..Len(StoredTemplates) :
        ~SkipsTemplate(StoredTemplates[i], tasks[t].today) =>
          ExactlyOnce(StoredTemplates[i], tasks[t].today)

\* C30: if a run of generateRecurringEntriesForToday rejects because a
\* storage write fails part-way, the day's marker is left unset so that a
\* later call retries, and after the retry completes every occurrence of
\* every active template exists as exactly one SpendEntry.
C30_RetryDoesNotDuplicate ==
  /\ [][MarkerLeftUnset]_vars
  /\ []OneEntryAfterRetry

\* the first part of C30 alone: the marker after a rejected run
C30_MarkerLeftUnset == [][MarkerLeftUnset]_vars

====
